---- MODULE Spec2Model ----
(***************************************************************************)
(* A model of the LLM Council backend: the OpenRouter gateway              *)
(* (backend/openrouter.py), the three-stage council orchestration          *)
(* (backend/council.py) and the two message endpoints that drive it        *)
(* (backend/main.py).                                                      *)
(*                                                                         *)
(* Encoding of Python values                                               *)
(*   None            the empty tuple <<>>                                  *)
(*   a value v that might have been None        the 1-tuple <<v>>          *)
(*   str used as free text (model output)       a sequence of 1-character  *)
(*                                              strings                    *)
(*   str used as an identifier, label or error message    a TLA+ string    *)
(*   dict (insertion ordered)                   a sequence of <<key, value>>*)
(*   list                                       a sequence                 *)
(***************************************************************************)
EXTENDS Integers, Sequences, FiniteSets, TLC

VARIABLES
    api_key,          \* config.OPENROUTER_API_KEY is set (TRUE) or missing
    variant,          \* "full": send_message -> run_full_council; "stream": event_generator
    framework,        \* conversation["framework"]
    council_models,   \* conversation["council_models"]: the supplied list
    chairman_model,   \* conversation["chairman_model"]: None or Some(id)
    is_first_message, \* len(conversation["messages"]) == 0 when the request arrived
    conversation_messages, \* conversation["messages"] when the request arrived
    pc,               \* the orchestrator's position
    calls,            \* the Gateway calls issued so far in this run, in issue order
    done_order,       \* positions in the awaited batch, in the order its calls finished
    reordered,        \* history: the Stage-1 calls finished in another order than issued
    responses,        \* the orchestrator's local `responses`: what the awaited batch returned
    stage1_results,
    stage2_results,
    label_to_model,
    aggregate_rankings,
    stage3_result,
    result,           \* what run_full_council returned: None or Some(4-tuple record)
    raised,           \* the exception that left the orchestrator: None or Some(type name)
    events,           \* the progress events yielded by event_generator, in order
    title_task,       \* generate_conversation_title(...): None, or Some(its coroutine)
    title,            \* what update_conversation_title stored: None or Some(text)
    parse_arg,        \* the argument of a direct call of parse_ranking_from_text
    parse_ret,        \* how that call ended: None, or Some(returned list / exception)
    stream,           \* a direct call of query_model_stream: None, or its generator
    store,            \* the conversation storage: its mode and the stored conversations
    storage_op,       \* the last direct call of a storage function: None, or what it did
    requests,         \* two message requests served at once: None, or their handlers
    limiter           \* security._limiter_store and the clock: None, or their state

\* what the request carries and the run never assigns
request == <<api_key, variant, framework, council_models, chairman_model, is_first_message,
            conversation_messages>>

\* the argument and the result of a direct call of the parser
parser == <<parse_arg, parse_ret>>

\* the state of the direct calls: of the parser and of the streaming Gateway
direct == <<parser, stream, storage_op, requests, limiter>>

vars == <<request, pc, calls, done_order, reordered, responses, stage1_results,
          stage2_results, label_to_model, aggregate_rankings, stage3_result, result,
          raised, events, title_task, title, direct, store>>

(***************************************************************************)
(* Python values                                                           *)
(***************************************************************************)
None == <<>>
Some(v) == <<v>>
Val(o) == o[1]

\* str(None), as an f-string renders a None response
NoneText == <<"N", "o", "n", "e">>

\* f"{x}" for x a text or None
FormatText(o) == IF o = None THEN NoneText ELSE Val(o)

Range(s) == {s[i] : i \in 1..Len(s)}

\* dict: d[k] = v, keeping the position of a key already present
DictSet(d, k, v) ==
    IF \E i \in 1..Len(d) : d[i][1] = k
    THEN [i \in 1..Len(d) |-> IF d[i][1] = k THEN <<k, v>> ELSE d[i]]
    ELSE Append(d, <<k, v>>)

DictKeys(d) == [i \in 1..Len(d) |-> d[i][1]]

DictHas(d, k) == \E i \in 1..Len(d) : d[i][1] = k

DictGet(d, k) == d[CHOOSE i \in 1..Len(d) : d[i][1] = k][2]

\* {k: v for k, v in zip(ks, vs)}
RECURSIVE DictFromZip(_, _)
DictFromZip(ks, vs) ==
    IF Len(ks) = 0 \/ Len(vs) = 0 THEN <<>>
    ELSE LET n == IF Len(ks) < Len(vs) THEN Len(ks) ELSE Len(vs)
         IN  DictSet(DictFromZip(SubSeq(ks, 1, n - 1), SubSeq(vs, 1, n - 1)), ks[n], vs[n])

(***************************************************************************)
(* Bounds and configuration                                                *)
(***************************************************************************)
\* longest supplied council list explored under every interleaving
MaxCouncil == 2

\* identifiers a caller may supply
Models == {"m1", "m2"}

\* config.COUNCIL_MODELS
COUNCIL_MODELS ==
    << "nvidia/nemotron-3-nano-30b-a3b:free",
       "xiaomi/mimo-v2-flash:free",
       "mistralai/devstral-2512:free",
       "nex-agi/deepseek-v3.1-nex-n1:free",
       "moonshotai/kimi-k2:free",
       "deepseek/deepseek-r1-0528:free" >>

\* config.CHAIRMAN_MODEL
CHAIRMAN_MODEL == "mistralai/devstral-2512:free"

Frameworks == {"standard", "debate", "six_hats", "ensemble"}

\* the user message add_user_message stores; the entries of a `messages` list sent
\* to the provider have the same shape
Message(role, content) == [role |-> role, content |-> content]

\* the message add_assistant_message builds
AssistantMessage(stage1, stage2, stage3) ==
    [role |-> "assistant", stage1 |-> stage1, stage2 |-> stage2, stage3 |-> stage3]

\* an earlier exchange of the conversation: the user's message and the council's, as
\* send_message stored them (here an ensemble run of one model)
PriorTurns ==
    <<Message("user", "p"),
      AssistantMessage(<<[model |-> "m1", response |-> Some(<<"a">>)]>>, <<>>,
                       [model |-> "c1", response |-> Some(<<"r">>)])>>

\* conversation["messages"] when a request arrives: empty for a first message
Conversations == {<<>>, PriorTurns}

SeqsUpTo(S, n) == UNION {[1..k -> S] : k \in 0..n}

\* the supplied lists followed under every interleaving of the calls
\* (CreateConversationRequest.council_models).  The code never inspects an
\* identifier, so the first one is named "m1".  The empty list, for which the six
\* models of COUNCIL_MODELS are queried, is followed with the long lists below.
CouncilLists == {l \in SeqsUpTo(Models, MaxCouncil) : Len(l) > 0 /\ l[1] = "m1"}

(***************************************************************************)
(* What the provider did with one HTTP request.  kind is                   *)
(*   "ok"        2xx, JSON body holding choices[0].message (content and    *)
(*               reasoning_details as message.get returns them)            *)
(*   "status"    non-2xx: raise_for_status raises HTTPStatusError          *)
(*   "network"   the request raised (connect error, timeout): msg = str(e) *)
(*   "malformed" 2xx, but response.json() or data['choices'][0]['message'] *)
(*               raised (ValueError, KeyError, IndexError, TypeError)       *)
(***************************************************************************)
NoBody == [json |-> FALSE, text |-> "", errtype |-> "none", errstr |-> "",
           errmessage |-> "", errerror |-> "", errrepr |-> "", message |-> None]

Outcome(kind, content, status, body, msg) ==
    [kind |-> kind, content |-> content, reasoning |-> None,
     status |-> status, body |-> body, msg |-> msg]

OkOutcome(content) == Outcome("ok", content, 200, NoBody, "")
StatusOutcome(status, body) == Outcome("status", None, status, body, "")
NetworkOutcome(msg) == Outcome("network", None, 0, NoBody, msg)
MalformedOutcome(msg) == Outcome("malformed", None, 200, NoBody, msg)

\* error bodies a provider sends with a non-2xx status
ErrorBodies ==
    { [NoBody EXCEPT !.json = TRUE, !.errtype = "dict", !.errmessage = "Rate limited"],
      [NoBody EXCEPT !.json = TRUE, !.errtype = "dict", !.errerror = "overloaded"],
      [NoBody EXCEPT !.json = TRUE, !.errtype = "dict", !.errrepr = "{'code': 500}"],
      [NoBody EXCEPT !.json = TRUE, !.errtype = "str", !.errstr = "bad key"],
      [NoBody EXCEPT !.json = TRUE, !.message = Some("no route"), !.text = "{...}"],
      [NoBody EXCEPT !.json = TRUE, !.text = "[]"],
      [NoBody EXCEPT !.text = "Bad Gateway"],
      NoBody }

\* _extract_error_message(response)
ExtractErrorMessage(body) ==
    IF ~body.json
    THEN (IF body.text # "" THEN body.text ELSE "Unknown error")
    ELSE IF body.errtype = "dict"
         THEN (IF body.errmessage # "" THEN body.errmessage
               ELSE IF body.errerror # "" THEN body.errerror
               ELSE body.errrepr)
    ELSE IF body.errtype = "str" THEN body.errstr
    ELSE IF body.message # None THEN Val(body.message)
    ELSE IF body.text # "" THEN body.text ELSE "Unknown error"

\* the dict query_model returns
ModelResponse(content, reasoning, error, status_code) ==
    [content |-> content, reasoning_details |-> reasoning,
     error |-> error, status_code |-> status_code]

\* how a coroutine ended: it returned value, or exc left it
Returned(v) == [raised |-> FALSE, exc |-> "", value |-> v]
Raised(e) == [raised |-> TRUE, exc |-> e, value |-> None]

\* query_model with the generic handler missing: the exception leaves the call
QueryModel_NoGenericHandler(key, outcome) ==
    IF ~key
    THEN Returned(Some(ModelResponse(None, None,
                       Some("OPENROUTER_API_KEY is not configured."), None)))
    ELSE IF outcome.kind = "ok"
    THEN Returned(Some(ModelResponse(outcome.content, outcome.reasoning, None, None)))
    ELSE IF outcome.kind = "status"
    THEN Returned(Some(ModelResponse(None, None,
                       Some(ToString(outcome.status) \o ": " \o ExtractErrorMessage(outcome.body)),
                       Some(outcome.status))))
    ELSE Raised(outcome.kind)

\* query_model(model, messages, timeout): the value it returns for what the provider did
QueryModel(key, outcome) ==
    IF ~key
    THEN Returned(Some(ModelResponse(None, None,
                       Some("OPENROUTER_API_KEY is not configured."), None)))
    ELSE IF outcome.kind = "ok"
    THEN Returned(Some(ModelResponse(outcome.content, outcome.reasoning, None, None)))
    ELSE IF outcome.kind = "status"
    THEN Returned(Some(ModelResponse(None, None,
                       Some(ToString(outcome.status) \o ": " \o ExtractErrorMessage(outcome.body)),
                       Some(outcome.status))))
    ELSE Returned(Some(ModelResponse(None, None, Some(outcome.msg), None)))

\* asyncio.gather(*tasks) that yields results as the tasks finish
Gather_CompletionOrder(rets, order) == [k \in 1..Len(order) |-> rets[order[k]]]

\* asyncio.gather(*tasks): the tasks' results in the order the tasks were passed,
\* whatever the order in which they finished; the first exception propagates
Gather(rets, order) == rets

\* query_models_parallel that leaves out the models whose call failed
RECURSIVE QueryModelsParallel_DropFailed(_, _)
QueryModelsParallel_DropFailed(models, rets) ==
    IF Len(models) = 0 \/ Len(rets) = 0 THEN <<>>
    ELSE LET n == IF Len(models) < Len(rets) THEN Len(models) ELSE Len(rets)
             rest == QueryModelsParallel_DropFailed(SubSeq(models, 1, n - 1), SubSeq(rets, 1, n - 1))
         IN  IF rets[n] # None /\ Val(rets[n]).error # None THEN rest
             ELSE DictSet(rest, models[n], rets[n])

\* query_models_parallel: {model: response for model, response in zip(models, responses)}
QueryModelsParallel(models, rets) == DictFromZip(models, rets)

(***************************************************************************)
(* Free text and the ranking parser (council.py, parse_ranking_from_text)  *)
(***************************************************************************)
Digits == {"0", "1", "2", "3", "4", "5", "6", "7", "8", "9"}

\* what \s matches among the characters used
Spaces == {" ", "\n", "\t", "\r"}

UpperLetters == <<"A", "B", "C", "D", "E", "F", "G", "H", "I", "J", "K", "L", "M",
                  "N", "O", "P", "Q", "R", "S", "T", "U", "V", "W", "X", "Y", "Z">>

\* [A-Z]
IsUpper(c) == c \in Range(UpperLetters)

\* chr(65 + i) for the code points 65..95
ChrTable == UpperLetters \o <<"[", "\\", "]", "^", "_">>

Chr(n) == ChrTable[n - 64]

\* "FINAL RANKING:"
MARKER == <<"F", "I", "N", "A", "L", " ", "R", "A", "N", "K", "I", "N", "G", ":">>

\* "Response "
RESPONSE_PREFIX == <<"R", "e", "s", "p", "o", "n", "s", "e", " ">>

\* s[p:].startswith(lit), p counted from 1
StartsWithAt(s, p, lit) ==
    /\ p >= 1
    /\ p + Len(lit) - 1 <= Len(s)
    /\ \A k \in 1..Len(lit) : s[p + k - 1] = lit[k]

\* s.find(lit, p) counted from 1; 0 when absent
Find(s, lit, p) ==
    LET hits == {q \in p..Len(s) : StartsWithAt(s, q, lit)}
    IN  IF hits = {} THEN 0 ELSE CHOOSE q \in hits : \A r \in hits : q <= r

\* lit in s
Contains(s, lit) == Find(s, lit, 1) # 0

\* s.split(lit)[1] when lit occurs in s: the text between the first occurrence of
\* lit and the next one (or the end of s)
SplitSecondPart(s, lit) ==
    LET first == Find(s, lit, 1)
        start == first + Len(lit)
        next  == Find(s, lit, start)
    IN  IF next = 0 THEN SubSeq(s, start, Len(s)) ELSE SubSeq(s, start, next - 1)

\* a match of r'Response [A-Z]' starts at p
LabelAt(s, p) ==
    /\ StartsWithAt(s, p, RESPONSE_PREFIX)
    /\ p + Len(RESPONSE_PREFIX) <= Len(s)
    /\ IsUpper(s[p + Len(RESPONSE_PREFIX)])

\* the matched text "Response X" of a match whose letter is at position q
LabelText(s, q) == "Response " \o s[q]

\* re.findall(r'Response [A-Z]', s[p:]): leftmost, non-overlapping
RECURSIVE FindAllLabels(_, _)
FindAllLabels(s, p) ==
    IF p > Len(s) THEN <<>>
    ELSE IF LabelAt(s, p)
         THEN <<LabelText(s, p + Len(RESPONSE_PREFIX))>>
              \o FindAllLabels(s, p + Len(RESPONSE_PREFIX) + 1)
         ELSE FindAllLabels(s, p + 1)

\* the end of the maximal run of characters of set S starting at p (p - 1 if none)
RECURSIVE RunEnd(_, _, _)
RunEnd(s, p, S) ==
    IF p <= Len(s) /\ s[p] \in S THEN RunEnd(s, p + 1, S) ELSE p - 1

\* a match of r'\d+\.\s*Response [A-Z]' starting at p: the position of its letter, or 0
NumberedAt(s, p) ==
    LET d == RunEnd(s, p, Digits)
    IN  IF d < p \/ d + 1 > Len(s) \/ s[d + 1] # "." THEN 0
        ELSE LET w == RunEnd(s, d + 2, Spaces)
             IN  IF LabelAt(s, w + 1) THEN w + 1 + Len(RESPONSE_PREFIX) ELSE 0

\* [re.search(r'Response [A-Z]', m).group()
\*  for m in re.findall(r'\d+\.\s*Response [A-Z]', s[p:])]
RECURSIVE FindAllNumbered(_, _)
FindAllNumbered(s, p) ==
    IF p > Len(s) THEN <<>>
    ELSE LET q == NumberedAt(s, p)
         IN  IF q # 0 THEN <<LabelText(s, q)>> \o FindAllNumbered(s, q + 1)
             ELSE FindAllNumbered(s, p + 1)

\* parse_ranking_from_text(ranking_text); `"FINAL RANKING:" in None` raises TypeError
ParseRankingFromText(ranking_text) ==
    IF ranking_text = None THEN Raised("TypeError")
    ELSE LET text == Val(ranking_text)
         IN  IF Contains(text, MARKER)
             THEN LET ranking_section == SplitSecondPart(text, MARKER)
                      numbered_matches == FindAllNumbered(ranking_section, 1)
                  IN  IF numbered_matches # <<>> THEN Returned(numbered_matches)
                      ELSE Returned(FindAllLabels(ranking_section, 1))
             ELSE Returned(FindAllLabels(text, 1))

\* model outputs explored as Stage-2 answers
TextRankedBA == <<"o", "k", "\n", "F", "I", "N", "A", "L", " ", "R", "A", "N", "K", "I", "N", "G", ":", "\n", "1", ".", " ", "R", "e", "s", "p", "o", "n", "s", "e", " ", "B", "\n", "2", ".", " ", "R", "e", "s", "p", "o", "n", "s", "e", " ", "A">>

TextNoRanking == <<"f", "i", "n", "e">>

Stage2Texts == {TextRankedBA, TextNoRanking}

(***************************************************************************)
(* Label Mapper and Rank Aggregator (council.py)                           *)
(***************************************************************************)
\* labels = [chr(65 + i) for i in range(len(stage1_results))]
Labels(n) == [i \in 1..n |-> Chr(65 + (i - 1))]

\* label_to_model = {f"Response {label}": result['model']
\*                   for label, result in zip(labels, stage1_results)}
LabelToModel(results) ==
    DictFromZip([i \in 1..Len(results) |-> "Response " \o Labels(Len(results))[i]],
                [i \in 1..Len(results) |-> results[i].model])

\* an attribution that drops an unknown label from the list, so that the labels
\* after it move up one position
RECURSIVE AttributePositions_Renumbered(_, _, _, _)
AttributePositions_Renumbered(positions, parsed, k, l2m) ==
    IF k > Len(parsed) THEN positions
    ELSE IF DictHas(l2m, parsed[k])
         THEN LET model_name == DictGet(l2m, parsed[k])
                  sofar == IF DictHas(positions, model_name)
                           THEN DictGet(positions, model_name) ELSE <<>>
              IN  AttributePositions_Renumbered(
                      DictSet(positions, model_name, Append(sofar, k)), parsed, k + 1, l2m)
         ELSE AttributePositions_Renumbered(
                  positions, SubSeq(parsed, 1, k - 1) \o SubSeq(parsed, k + 1, Len(parsed)),
                  k, l2m)

\* model_positions[model_name].append(position) for the labels of one parsed ranking,
\* from list position k on
RECURSIVE AttributePositions(_, _, _, _)
AttributePositions(positions, parsed, k, l2m) ==
    IF k > Len(parsed) THEN positions
    ELSE IF DictHas(l2m, parsed[k])
         THEN LET model_name == DictGet(l2m, parsed[k])
                  sofar == IF DictHas(positions, model_name)
                           THEN DictGet(positions, model_name) ELSE <<>>
              IN  AttributePositions(DictSet(positions, model_name, Append(sofar, k)),
                                     parsed, k + 1, l2m)
         ELSE AttributePositions(positions, parsed, k + 1, l2m)

\* the loop over stage2_results that fills model_positions, from result j on;
\* each ranking text is parsed again
RECURSIVE ModelPositions(_, _, _, _)
ModelPositions(positions, results, j, l2m) ==
    IF j > Len(results) THEN Returned(positions)
    ELSE LET parsed == ParseRankingFromText(results[j].ranking)
         IN  IF parsed.raised THEN parsed
             ELSE ModelPositions(AttributePositions(positions, parsed.value, 1, l2m),
                                 results, j + 1, l2m)

RECURSIVE SumSeq(_)
SumSeq(q) == IF q = <<>> THEN 0 ELSE q[1] + SumSeq(Tail(q))

\* the quotient cut off after two decimals
RoundHundredths_Truncate(total, count) == (100 * total) \div count

\* round(total / count, 2), in hundredths: the nearest hundredth, and the even one
\* when the quotient lies exactly half way (which it does only for the eighths,
\* that a float holds exactly, as long as count < 40)
RoundHundredths(total, count) ==
    LET q == (100 * total) \div count
        r == (100 * total) % count
    IN  IF 2 * r < count THEN q
        ELSE IF 2 * r > count THEN q + 1
        ELSE IF q % 2 = 0 THEN q ELSE q + 1

\* an insertion that puts e before the entries of equal rank
RECURSIVE InsertByRank_BeforeEquals(_, _)
InsertByRank_BeforeEquals(sorted, e) ==
    IF sorted = <<>> THEN <<e>>
    ELSE IF sorted[Len(sorted)].average_rank < e.average_rank THEN Append(sorted, e)
    ELSE Append(InsertByRank_BeforeEquals(SubSeq(sorted, 1, Len(sorted) - 1), e),
                sorted[Len(sorted)])

\* list.sort(key=...): stable insertion of e into the sorted list
RECURSIVE InsertByRank(_, _)
InsertByRank(sorted, e) ==
    IF sorted = <<>> THEN <<e>>
    ELSE IF sorted[Len(sorted)].average_rank <= e.average_rank THEN Append(sorted, e)
    ELSE Append(InsertByRank(SubSeq(sorted, 1, Len(sorted) - 1), e), sorted[Len(sorted)])

RECURSIVE SortByRank(_)
SortByRank(q) ==
    IF q = <<>> THEN <<>>
    ELSE InsertByRank(SortByRank(SubSeq(q, 1, Len(q) - 1)), q[Len(q)])

\* calculate_aggregate_rankings(stage2_results, label_to_model);
\* average_rank is held in hundredths
CalculateAggregateRankings(results, l2m) ==
    LET mp == ModelPositions(<<>>, results, 1, l2m)
    IN  IF mp.raised THEN mp
        ELSE LET positions == mp.value
                 aggregate ==
                     [i \in 1..Len(positions) |->
                        [model |-> positions[i][1],
                         average_rank |-> RoundHundredths(SumSeq(positions[i][2]),
                                                          Len(positions[i][2])),
                         rankings_count |-> Len(positions[i][2])]]
             IN  Returned(SortByRank(aggregate))

(***************************************************************************)
(* The stage functions (council.py)                                        *)
(***************************************************************************)
\* request.content of the message being answered
UserQuery == "q"

\* a chat payload: the system prompt's hat (six hats only), the user's query and,
\* for the ranking, critique and chairman prompts, the texts pasted into the prompt
Messages(kind, hat, s1, s2) ==
    [kind |-> kind, hat |-> hat, query |-> UserQuery, stage1 |-> s1, stage2 |-> s2]

\* one Gateway call: a query_model coroutine (every stage function awaits
\* query_model or query_models_parallel; none iterates query_model_stream)
Call(stage, model, messages) ==
    [stage |-> stage, model |-> model, messages |-> messages, status |-> "inflight",
     outcome |-> None, ret |-> None, failed |-> FALSE, gateway |-> "query_model"]

\* a fallback that takes the default set whatever was supplied
ActiveModels_IgnoresSupplied(supplied) == COUNCIL_MODELS

\* active_models = council_models if council_models and len(council_models) > 0
\*                 else COUNCIL_MODELS
ActiveModels(supplied) == IF Len(supplied) > 0 THEN supplied ELSE COUNCIL_MODELS

\* chairman_model if chairman_model else CHAIRMAN_MODEL
ActiveChairman(supplied) ==
    IF supplied # None /\ Val(supplied) # "" THEN Val(supplied) ELSE CHAIRMAN_MODEL

\* hats, in the order of stage1_collect_answerssix_hats
Hats == <<"White Hat", "Red Hat", "Black Hat", "Yellow Hat", "Green Hat", "Blue Hat">>

\* every model wears the first hat
HatOf_AlwaysWhite(i) == Hats[1]

\* hats[i % len(hats)] for the model at position i (counted from 1 here)
HatOf(i) == Hats[((i - 1) % Len(Hats)) + 1]

\* hats, lines 497-504: what each hat is told to focus on
HatPrompts ==
    << "Focus on available data and facts. Be neutral and objective.",
       "Focus on intuition, feelings, and hunches. No need to justify them.",
       "Focus on caution, risks, and potential problems. Be critical.",
       "Focus on benefits, optimism, and value. Be positive.",
       "Focus on creativity, alternatives, and new ideas.",
       "Focus on process control, organization, and next steps." >>

\* the `messages` list a Stage-1 call sends: the user's query alone
\* (stage1_collect_responses, line 20), after the hat's system prompt for six hats
\* (stage1_collect_answerssix_hats, lines 516-520)
Stage1Payload(m) ==
    IF m.kind = "hat"
    THEN LET i == CHOOSE k \in 1..Len(Hats) : Hats[k] = m.hat
         IN  <<Message("system", "You are wearing the " \o m.hat \o ". " \o HatPrompts[i]),
               Message("user", m.query)>>
    ELSE <<Message("user", m.query)>>

\* the query_model coroutines Stage 1 creates
Stage1Calls(fw, active) ==
    [i \in 1..Len(active) |->
        Call(1, active[i],
             IF fw = "six_hats" THEN Messages("hat", HatOf(i), <<>>, <<>>)
             ELSE Messages("query", "", <<>>, <<>>))]

\* stage1_collect_responses, lines 26-34: the loop over responses.items()
RECURSIVE Stage1Results(_)
Stage1Results(resp) ==
    IF resp = <<>> THEN <<>>
    ELSE LET last == resp[Len(resp)]
             rest == Stage1Results(SubSeq(resp, 1, Len(resp) - 1))
         IN  IF last[2] # None
             THEN Append(rest, [model |-> last[1], response |-> Val(last[2]).content])
             ELSE rest

\* stage1_collect_answerssix_hats, lines 532-542: resp pairs active_models[i]
\* with responses[i]
RECURSIVE Stage1ResultsSixHats(_)
Stage1ResultsSixHats(resp) ==
    IF resp = <<>> THEN <<>>
    ELSE LET i == Len(resp)
             rest == Stage1ResultsSixHats(SubSeq(resp, 1, i - 1))
         IN  IF resp[i][2] # None
             THEN Append(rest, [model |-> resp[i][1] \o " (" \o HatOf(i) \o ")",
                                response |-> Val(resp[i][2]).content])
             ELSE rest

\* answerstext of the Stage-2 prompts: f"Response {label}:\n{result['response']}"
ResponsesText(results) ==
    [i \in 1..Len(results) |->
        <<"Response " \o Labels(Len(results))[i], FormatText(results[i].response)>>]

\* the query_model coroutines query_models_parallel creates for a Stage-2 prompt
Stage2Calls(kind, active, results) ==
    [i \in 1..Len(active) |->
        Call(2, active[i], Messages(kind, "", ResponsesText(results), <<>>))]

\* stage2_collect_rankings, lines 108-117: the loop over responses.items()
RECURSIVE Stage2Rankings(_)
Stage2Rankings(resp) ==
    IF resp = <<>> THEN Returned(<<>>)
    ELSE LET last == resp[Len(resp)]
             rest == Stage2Rankings(SubSeq(resp, 1, Len(resp) - 1))
         IN  IF rest.raised THEN rest
             ELSE IF last[2] = None THEN rest
             ELSE LET full_text == Val(last[2]).content
                      parsed == ParseRankingFromText(full_text)
                  IN  IF parsed.raised THEN parsed
                      ELSE Returned(Append(rest.value,
                               [model |-> last[1], ranking |-> full_text,
                                parsed_ranking |-> parsed.value]))

\* critiques collected as rankings are: each text is run through the parser
RECURSIVE Stage2Critiques_Parsed(_)
Stage2Critiques_Parsed(resp) ==
    IF resp = <<>> THEN <<>>
    ELSE LET last == resp[Len(resp)]
             rest == Stage2Critiques_Parsed(SubSeq(resp, 1, Len(resp) - 1))
             parsed == ParseRankingFromText(Val(last[2]).content)
         IN  Append(rest, [model |-> last[1], ranking |-> Val(last[2]).content,
                           parsed_ranking |-> IF parsed.raised THEN <<>> ELSE parsed.value])

\* stage2_collect_critiques, lines 573-580
RECURSIVE Stage2Critiques(_)
Stage2Critiques(resp) ==
    IF resp = <<>> THEN <<>>
    ELSE LET last == resp[Len(resp)]
             rest == Stage2Critiques(SubSeq(resp, 1, Len(resp) - 1))
         IN  IF last[2] # None
             THEN Append(rest, [model |-> last[1], ranking |-> Val(last[2]).content,
                                parsed_ranking |-> <<>>])
             ELSE rest

\* "Error: Unable to generate final synthesis."
SynthesisApology == <<"E", "r", "r", "o", "r", ":", " ", "U", "n", "a", "b", "l", "e", " ", "t", "o", " ", "g", "e", "n", "e", "r", "a", "t", "e", " ", "f", "i", "n", "a", "l", " ", "s", "y", "n", "t", "h", "e", "s", "i", "s", ".">>

\* "All models failed to respond. Please try again."
AllFailedApology == <<"A", "l", "l", " ", "m", "o", "d", "e", "l", "s", " ", "f", "a", "i", "l", "e", "d", " ", "t", "o", " ", "r", "e", "s", "p", "o", "n", "d", ".", " ", "P", "l", "e", "a", "s", "e", " ", "t", "r", "y", " ", "a", "g", "a", "i", "n", ".">>

\* the chairman prompt of stage3_synthesize_final (lines 597-635)
ChairmanMessages(mode, s1, s2) ==
    Messages(IF mode \in {"debate", "six_hats", "ensemble"} THEN mode ELSE "standard", "",
             [i \in 1..Len(s1) |-> <<s1[i].model, FormatText(s1[i].response)>>],
             IF mode = "ensemble" THEN <<>>
             ELSE [i \in 1..Len(s2) |-> <<s2[i].model, FormatText(s2[i].ranking)>>])

\* stage3_synthesize_final, lines 636-644: the result built from the chairman's response
Stage3Result(chairman, response) ==
    IF response = None
    THEN [model |-> chairman, response |-> Some(SynthesisApology)]
    ELSE [model |-> chairman, response |-> Val(response).content]

\* _return_error()
ReturnError ==
    [stage1 |-> <<>>, stage2 |-> <<>>,
     stage3 |-> [model |-> "error", response |-> Some(AllFailedApology)],
     metadata |-> <<>>]

\* the metadata dict of run_full_council (lines 351-357)
Metadata(fw, s1, chairman, l2m, agg) ==
    << <<"framework", fw>>,
       <<"council_models", [i \in 1..Len(s1) |-> s1[i].model]>>,
       <<"chairman_model", chairman>>,
       <<"label_to_model", l2m>>,
       <<"aggregate_rankings", agg>> >>

\* the model generate_conversation_title queries
TITLE_MODEL == "xiaomi/mimo-v2-flash:free"

\* "New Conversation"
NewConversation == <<"N", "e", "w", " ", "C", "o", "n", "v", "e", "r", "s", "a", "t", "i", "o", "n">>

\* s.lstrip(chars), s.rstrip(chars), s.strip(chars) for chars the set S
RECURSIVE LStrip(_, _)
LStrip(s, S) == IF s # <<>> /\ s[1] \in S THEN LStrip(Tail(s), S) ELSE s

RECURSIVE RStrip(_, _)
RStrip(s, S) ==
    IF s # <<>> /\ s[Len(s)] \in S THEN RStrip(SubSeq(s, 1, Len(s) - 1), S) ELSE s

Strip(s, S) == RStrip(LStrip(s, S), S)

\* the characters of title.strip('"\'')
Quotes == {"\"", "'"}

\* `if len(title) > 50`
TITLE_MAX_LEN == 50

\* `title[:47] + "..."`
TITLE_KEPT == 47

\* generate_conversation_title, lines 285-300, from what its query_model call returned;
\* `None.strip()` raises AttributeError
GenerateConversationTitle(ret) ==
    IF ret.raised THEN ret
    ELSE IF ret.value = None THEN Returned(NewConversation)
    ELSE IF Val(ret.value).content = None THEN Raised("AttributeError")
    ELSE LET cleaned == Strip(Strip(Val(Val(ret.value).content), Spaces), Quotes)
         IN  Returned(IF Len(cleaned) > TITLE_MAX_LEN
                      THEN SubSeq(cleaned, 1, TITLE_KEPT) \o <<".", ".", ".">>
                      ELSE cleaned)

\* the coroutine of generate_conversation_title: in flight, or done with how it ended
TitleTask(status, ret) == [status |-> status, ret |-> ret]

(***************************************************************************)
(* The environment: what the provider may do with a call of each stage     *)
(***************************************************************************)
\* query_model returned before any request was made (no credential)
NoRequest == Outcome("none", None, 0, NoBody, "")

Stage1Texts == {<<"a">>}

Stage3Texts == {<<"s">>}

\* a title as a model writes it: quoted, with a trailing newline
TitleText == <<"\"", "T", "\"", "\n">>

\* an HTTP status error with a JSON error body, one with a plain-text body, a timeout
\* (httpx timeouts carry an empty message) and a 2xx body without choices
ServerError == StatusOutcome(500, [NoBody EXCEPT !.json = TRUE, !.errtype = "dict",
                                                 !.errmessage = "Internal error"])

RateLimited == StatusOutcome(429, [NoBody EXCEPT !.text = "Too Many Requests"])

TimedOut == NetworkOutcome("")

NoChoices == MalformedOutcome("'choices'")

\* At every stage the provider may answer with a text, answer 200 with a null
\* content (which query_model passes on with no error), or fail.  Every failure
\* leaves the stage functions the same response shape, so the batches are explored
\* with one kind of failure and the single chairman call with all
ProviderOutcomes(stage) ==
    IF stage = 1
    THEN {OkOutcome(Some(t)) : t \in Stage1Texts} \cup {OkOutcome(None), ServerError}
    ELSE IF stage = 2
    THEN {OkOutcome(Some(t)) : t \in Stage2Texts} \cup {OkOutcome(None), ServerError}
    ELSE {OkOutcome(Some(t)) : t \in Stage3Texts}
         \cup {OkOutcome(None), ServerError, RateLimited, TimedOut, NoChoices}

\* what the provider may do with the title call
TitleOutcomes == {OkOutcome(Some(TitleText)), ServerError}

(***************************************************************************)
(* The orchestrator: run_full_council (council.py) as send_message calls   *)
(* it, and event_generator of send_message_stream (main.py).  One action   *)
(* runs the code from one point where it is suspended to the next: an      *)
(* await that waits, or, in event_generator, a yield, where the generator  *)
(* stays until its consumer asks for the next event.                       *)
(***************************************************************************)
\* positions in calls of the calls of one stage, in issue order
BatchOf(stage) ==
    LET before == Cardinality({i \in 1..Len(calls) : calls[i].stage < stage})
        n == Cardinality({i \in 1..Len(calls) : calls[i].stage = stage})
    IN  [k \in 1..n |-> before + k]

StageOf(p) == IF p \in {"s1_wait", "s1_ret"} THEN 1
              ELSE IF p \in {"s2_wait", "s2_ret"} THEN 2 ELSE 3

\* the awaited batch is over as soon as one of its calls has finished
BatchOver_FirstCompleted(batch) ==
    \E k \in 1..Len(batch) : calls[batch[k]].status = "done"

\* await asyncio.gather(...) / await query_model(...) resumes: every call of the
\* batch has finished
BatchOver(batch) == \A k \in 1..Len(batch) : calls[batch[k]].status = "done"

\* how each call of the batch ended
BatchRets(batch) ==
    [k \in 1..Len(batch) |->
        IF calls[batch[k]].ret = None THEN Returned(None) ELSE Val(calls[batch[k]].ret)]

\* the response objects are dropped once the stage function has used them
Forget(stage) ==
    [i \in 1..Len(calls) |->
        IF calls[i].stage = stage
        THEN [calls[i] EXCEPT !.outcome = None, !.ret = None]
        ELSE calls[i]]

(***************************************************************************)
(* storage.py: the conversation storage.  The store holds its mode          *)
(* (DATABASE_URL set or not), a clock for created_at, and per conversation  *)
(* id either None or the stored conversation                                *)
(***************************************************************************)
ConvIds == {"c1", "c2"}
Users == {"u1", "u2"}

\* APP_ORIGIN
APP_ORIGIN == "local"

EmptyStore(database) ==
    [database |-> database, clock |-> 0, conversations |-> [c \in ConvIds |-> None]]

\* the dict of file_create_conversation, the row of db_create_conversation
Conversation(conversation_id, user_id, created_at, fw, models, chairman) ==
    [id |-> conversation_id, user_id |-> user_id, created_at |-> created_at,
     title |-> NewConversation, framework |-> fw, council_models |-> models,
     chairman_model |-> chairman, messages |-> <<>>, origin |-> APP_ORIGIN]

\* what a storage function leaves behind and what it returns or raises
Effect(st, ret) == [store |-> st, ret |-> ret]

\* file_save_conversation / session.commit(): the conversation is written under its id
Save(st, conv) ==
    [st EXCEPT !.conversations = [@ EXCEPT ![conv.id] = Some(conv)]]

\* file_get_conversation
FileGetConversation(st, conversation_id, user_id) ==
    LET data == st.conversations[conversation_id]
    IN  IF data = None THEN None
        ELSE IF Val(data).user_id # user_id THEN None
        ELSE data

\* db_get_conversation
DbGetConversation(st, conversation_id, user_id) ==
    LET conv == st.conversations[conversation_id]
    IN  IF conv # None /\ Val(conv).user_id = user_id THEN conv ELSE None

\* a get_conversation that checks only that the conversation exists
GetConversation_AnyUser(st, conversation_id, user_id) ==
    Effect(st, Returned(st.conversations[conversation_id]))

\* get_conversation
GetConversation(st, conversation_id, user_id) ==
    Effect(st, Returned(IF st.database
                         THEN DbGetConversation(st, conversation_id, user_id)
                         ELSE FileGetConversation(st, conversation_id, user_id)))

\* create_conversation: the file is written whatever was there; the row is
\* inserted, and a second row with the same primary key is refused
CreateConversation(st, conversation_id, user_id, fw, models, chairman) ==
    LET conv == Conversation(conversation_id, user_id, st.clock + 1, fw, models, chairman)
    IN  IF st.database /\ st.conversations[conversation_id] # None
        THEN Effect(st, Raised("IntegrityError"))
        ELSE Effect(Save([st EXCEPT !.clock = @ + 1], conv), Returned(conv))

\* the entry of list_conversations for one conversation
Summary(conv) ==
    [id |-> conv.id, created_at |-> conv.created_at, title |-> conv.title,
     framework |-> conv.framework, message_count |-> Len(conv.messages)]

\* the conversations of the set, newest first
RECURSIVE NewestFirst(_)
NewestFirst(convs) ==
    IF convs = {} THEN <<>>
    ELSE LET newest == CHOOSE c \in convs : \A d \in convs : d.created_at <= c.created_at
         IN  <<Summary(newest)>> \o NewestFirst(convs \ {newest})

\* a list_conversations that lists every stored conversation
ListConversations_Everyone(st, user_id) ==
    Effect(st, Returned(NewestFirst({Val(st.conversations[c]) :
                                        c \in {d \in ConvIds : st.conversations[d] # None}})))

\* list_conversations (file_list_conversations, db_list_conversations)
ListConversations(st, user_id) ==
    Effect(st, Returned(NewestFirst({Val(st.conversations[c]) :
                  c \in {d \in ConvIds : /\ st.conversations[d] # None
                                         /\ Val(st.conversations[d]).user_id = user_id}})))

\* db_add_message
DbAddMessage(st, conversation_id, user_id, message) ==
    LET conv == st.conversations[conversation_id]
    IN  IF conv = None \/ Val(conv).user_id # user_id
        THEN Effect(st, Raised("ValueError"))
        ELSE Effect(Save(st, [Val(conv) EXCEPT !.messages = Append(@, message)]),
                     Returned(None))

\* the file branch of add_user_message and add_assistant_message
FileAddMessage(st, conversation_id, user_id, message) ==
    LET conv == FileGetConversation(st, conversation_id, user_id)
    IN  IF conv = None
        THEN Effect(st, Raised("ValueError"))
        ELSE Effect(Save(st, [Val(conv) EXCEPT !.messages = Append(@, message)]),
                     Returned(None))

\* an add_user_message that does not ask who is calling
AddUserMessage_AnyUser(st, conversation_id, user_id, content) ==
    LET conv == st.conversations[conversation_id]
    IN  IF conv = None
        THEN Effect(st, Raised("ValueError"))
        ELSE Effect(Save(st, [Val(conv) EXCEPT
                                 !.messages = Append(@, Message("user", content))]),
                     Returned(None))

\* an add_user_message that puts the new message first
AddUserMessage_Prepends(st, conversation_id, user_id, content) ==
    LET conv == st.conversations[conversation_id]
    IN  IF conv = None \/ Val(conv).user_id # user_id
        THEN Effect(st, Raised("ValueError"))
        ELSE Effect(Save(st, [Val(conv) EXCEPT
                                 !.messages = <<Message("user", content)>> \o @]),
                     Returned(None))

\* add_user_message
AddUserMessage(st, conversation_id, user_id, content) ==
    IF st.database
    THEN DbAddMessage(st, conversation_id, user_id, Message("user", content))
    ELSE FileAddMessage(st, conversation_id, user_id, Message("user", content))

\* an add_assistant_message that stores the message without the Stage-1 results
AddAssistantMessage_WithoutStage1(st, conversation_id, user_id, stage1, stage2, stage3) ==
    IF st.database
    THEN DbAddMessage(st, conversation_id, user_id, AssistantMessage(<<>>, stage2, stage3))
    ELSE FileAddMessage(st, conversation_id, user_id, AssistantMessage(<<>>, stage2, stage3))

\* add_assistant_message
AddAssistantMessage(st, conversation_id, user_id, stage1, stage2, stage3) ==
    IF st.database
    THEN DbAddMessage(st, conversation_id, user_id, AssistantMessage(stage1, stage2, stage3))
    ELSE FileAddMessage(st, conversation_id, user_id,
                        AssistantMessage(stage1, stage2, stage3))

\* update_conversation_title (db_update_title and the file branch)
UpdateConversationTitle(st, conversation_id, user_id, new_title) ==
    LET conv == IF st.database
                THEN DbGetConversation(st, conversation_id, user_id)
                ELSE FileGetConversation(st, conversation_id, user_id)
    IN  IF conv = None
        THEN Effect(st, Raised("ValueError"))
        ELSE Effect(Save(st, [Val(conv) EXCEPT !.title = new_title]), Returned(None))

\* delete_conversation (db_delete_conversation, file_delete_conversation)
DeleteConversation(st, conversation_id, user_id) ==
    LET conv == st.conversations[conversation_id]
    IN  IF conv = None \/ Val(conv).user_id # user_id
        THEN Effect(st, Raised("ValueError"))
        ELSE Effect([st EXCEPT !.conversations = [@ EXCEPT ![conversation_id] = None]],
                     Returned(None))

Yield(ev) == IF variant = "stream" THEN events \o ev ELSE events

\* the conversation and the user of the request that is followed
ConversationId == "c1"
UserId == "u1"

\* the store when the handler has read the conversation (lines 179-184, 234-242):
\* DATABASE_URL unset, and the conversation stored with the fields the handler read
Stored(fw, models, chairman, messages) ==
    Save([EmptyStore(FALSE) EXCEPT !.clock = 1],
         [Conversation(ConversationId, UserId, 1, fw, models, chairman)
            EXCEPT !.messages = messages,
                   !.title = IF messages = <<>> THEN NewConversation ELSE <<"T">>])

\* the store as the next storage call of the handler finds it: the conversation may
\* have been deleted (delete_conversation) since the handler's last storage call
Found(gone) ==
    IF gone THEN DeleteConversation(store, ConversationId, UserId).store ELSE store

Init ==
    /\ api_key \in BOOLEAN
    /\ variant \in {"full", "stream"}
    /\ framework \in Frameworks
    /\ council_models \in CouncilLists
    /\ chairman_model \in {None, Some("c1")}
    /\ conversation_messages \in Conversations
    /\ is_first_message = (Len(conversation_messages) = 0)
    /\ pc = "start"
    /\ calls = <<>>
    /\ done_order = <<>>
    /\ reordered = FALSE
    /\ responses = <<>>
    /\ stage1_results = <<>>
    /\ stage2_results = <<>>
    /\ label_to_model = <<>>
    /\ aggregate_rankings = <<>>
    /\ stage3_result = None
    /\ result = None
    /\ raised = None
    /\ events = <<>>
    /\ title_task = None
    /\ title = None
    /\ parse_arg = None
    /\ parse_ret = None
    /\ store = Stored(framework, council_models, chairman_model, conversation_messages)
    /\ storage_op = None
    /\ requests = None
    /\ limiter = None
    /\ stream = None

\* an event_generator whose handler yields the error event and then goes on to
\* yield complete
Fail_ThenComplete(exc) ==
    /\ pc' = "done"
    /\ raised' = IF variant = "full" THEN Some(exc) ELSE raised
    /\ events' = Yield(<<"error", "complete">>)

\* an exception leaves the orchestrator: send_message raises to its caller;
\* event_generator catches it and yields the error event
Fail(exc) ==
    /\ pc' = "done"
    /\ raised' = IF variant = "full" THEN Some(exc) ELSE raised
    /\ events' = Yield(<<"error">>)

\* add_user_message (unless send_message has added it before the title); then
\* run_full_council runs to its first await, where the Stage-1 coroutines are created
\* and awaited, and event_generator creates the title task of a first message and
\* runs to `yield stage1_start`, where it is suspended with no call issued
StartStage1 ==
    /\ pc = "start"
    /\ (variant = "full" /\ is_first_message) => title_task # None
    /\ LET adds == ~(variant = "full" /\ is_first_message)
       IN  \E gone \in {FALSE, adds} :
              LET added == IF adds
                           THEN AddUserMessage(Found(gone), ConversationId, UserId, UserQuery)
                           ELSE Effect(store, Returned(None))
              IN  /\ store' = added.store
                  /\ IF added.ret.raised
                     THEN /\ Fail(added.ret.exc)
                          /\ UNCHANGED <<title_task, calls>>
                     ELSE IF variant = "full"
                     THEN /\ calls' = Stage1Calls(framework, ActiveModels(council_models))
                          /\ pc' = "s1_wait"
                          /\ UNCHANGED <<title_task, raised, events>>
                     ELSE /\ title_task' = IF is_first_message
                                           THEN Some(TitleTask("inflight", None))
                                           ELSE title_task
                          /\ events' = Yield(<<"stage1_start">>)
                          /\ pc' = "yield_stage1_start"
                          /\ UNCHANGED <<calls, raised>>
    /\ UNCHANGED <<request, direct, title,
                   done_order, reordered, responses, stage1_results, stage2_results,
                   label_to_model, aggregate_rankings, stage3_result, result>>

\* event_generator is resumed at `yield stage1_start` (line 256) and runs to the
\* await of lines 258-261: the Stage-1 coroutines are created and awaited
ResumeStage1 ==
    /\ pc = "yield_stage1_start"
    /\ calls' = Stage1Calls(framework, ActiveModels(council_models))
    /\ pc' = "s1_wait"
    /\ UNCHANGED <<request, direct, store, title_task, title, done_order, reordered,
                   responses, stage1_results, stage2_results, label_to_model,
                   aggregate_rankings, stage3_result, result, raised, events>>

\* send_message, lines 187-191: the user message is stored; the title of a first
\* message is generated, and awaited, before the council runs
StartTitle ==
    /\ pc = "start"
    /\ variant = "full" /\ is_first_message /\ title_task = None
    /\ \E gone \in BOOLEAN :
          LET added == AddUserMessage(Found(gone), ConversationId, UserId, UserQuery)
          IN  /\ store' = added.store
              /\ IF added.ret.raised
                 THEN /\ Fail(added.ret.exc)
                      /\ UNCHANGED title_task
                 ELSE /\ title_task' = Some(TitleTask("inflight", None))
                      /\ pc' = "title_first"
                      /\ UNCHANGED <<raised, events>>
    /\ UNCHANGED <<request, direct, title, calls, done_order, reordered, responses,
                   stage1_results, stage2_results, label_to_model, aggregate_rankings,
                   stage3_result, result>>

\* the query_model call of generate_conversation_title finishes and the coroutine
\* runs to its end (followed while the request is being served: nothing reads the
\* task afterwards)
TitleTaskDone ==
    /\ pc # "done"
    /\ title_task # None
    /\ Val(title_task).status = "inflight"
    /\ \E o \in (IF api_key THEN TitleOutcomes ELSE {NoRequest}) :
          title_task' = Some(TitleTask("done",
                                      Some(GenerateConversationTitle(QueryModel(api_key, o)))))
    /\ UNCHANGED <<request, direct, store, title, pc, calls, done_order, reordered, responses,
                   stage1_results, stage2_results, label_to_model, aggregate_rankings,
                   stage3_result, result, raised, events>>

\* one in-flight query_model call finishes, the provider having done one of
\* `outcomes`
CompleteWith(i, outcomes) ==
    /\ i \in 1..Len(calls)
    /\ calls[i].status = "inflight"
    /\ \E o \in outcomes :
          LET ret == QueryModel(api_key, o)
          IN  calls' = [calls EXCEPT ![i] =
                           [@ EXCEPT !.status = "done", !.outcome = Some(o),
                                     !.ret = Some(ret),
                                     !.failed = ret.raised \/ ret.value = None
                                                \/ Val(ret.value).error # None]]
    /\ done_order' = Append(done_order,
                            i - Cardinality({j \in 1..Len(calls) :
                                               calls[j].stage < calls[i].stage}))
    /\ UNCHANGED <<request, direct, store, title_task, title, pc,
                   reordered, responses, stage1_results, stage2_results, label_to_model,
                   aggregate_rankings, stage3_result, result, raised, events>>

\* one in-flight query_model call finishes, with whatever the provider did
Complete(i) ==
    CompleteWith(i, IF api_key THEN ProviderOutcomes(calls[i].stage) ELSE {NoRequest})

\* the awaited batch returns to the stage function: `responses` is bound
BatchReturn ==
    /\ pc \in {"s1_wait", "s2_wait", "s3_wait"}
    /\ LET stage == StageOf(pc)
           batch == BatchOf(stage)
           rets == Gather(BatchRets(batch), done_order)
           models == [k \in 1..Len(batch) |-> calls[batch[k]].model]
           values == [k \in 1..Len(rets) |-> rets[k].value]
       IN  /\ BatchOver(batch)
           /\ IF \E k \in 1..Len(rets) : rets[k].raised
              THEN /\ Fail(rets[CHOOSE k \in 1..Len(rets) : rets[k].raised].exc)
                   /\ UNCHANGED responses
              ELSE /\ responses' =
                        IF stage = 1 /\ framework = "six_hats"
                        THEN [k \in 1..Len(values) |-> <<models[k], values[k]>>]
                        ELSE IF stage = 3 THEN <<<<models[1], values[1]>>>>
                        ELSE QueryModelsParallel(models, values)
                   /\ pc' = IF stage = 1 THEN "s1_ret"
                            ELSE IF stage = 2 THEN "s2_ret" ELSE "s3_ret"
                   /\ UNCHANGED <<raised, events>>
    /\ done_order' = <<>>
    /\ reordered' = IF StageOf(pc) = 1
                    THEN done_order # [k \in 1..Len(done_order) |-> k]
                    ELSE reordered
    /\ UNCHANGED <<request, direct, store, title_task, title, calls,
                   stage1_results, stage2_results, label_to_model,
                   aggregate_rankings, stage3_result, result>>

\* Stage 1 returns.  run_full_council tests `if not stage1_results`, then runs up to
\* its next await: the Stage-2 batch, or for ensemble the chairman call.
\* event_generator runs to `yield stage1_complete` (line 263) and is suspended there.
Stage1Done ==
    /\ pc = "s1_ret"
    /\ LET s1 == IF framework = "six_hats" THEN Stage1ResultsSixHats(responses)
                 ELSE Stage1Results(responses)
           active == ActiveModels(council_models)
       IN  /\ stage1_results' = s1
           /\ IF variant = "stream"
              THEN /\ calls' = Forget(1)
                   /\ events' = Yield(<<"stage1_complete">>)
                   /\ pc' = "yield_stage1_complete"
                   /\ UNCHANGED <<stage2_results, label_to_model, result, raised, store>>
              ELSE IF s1 = <<>>
              THEN /\ result' = Some(ReturnError)
                   /\ calls' = Forget(1)
                   /\ \E gone \in BOOLEAN :
                         LET added == AddAssistantMessage(Found(gone), ConversationId,
                                          UserId, ReturnError.stage1, ReturnError.stage2,
                                          ReturnError.stage3)
                         IN  /\ store' = added.store
                             /\ IF added.ret.raised
                                THEN Fail(added.ret.exc)
                                ELSE pc' = "done" /\ UNCHANGED <<raised, events>>
                   /\ UNCHANGED <<stage2_results, label_to_model>>
              ELSE IF framework = "ensemble"
              THEN /\ stage2_results' = <<>>
                   /\ label_to_model' = LabelToModel(s1)
                   /\ calls' = Append(Forget(1),
                                      Call(3, ActiveChairman(chairman_model),
                                           ChairmanMessages(framework, s1, <<>>)))
                   /\ pc' = "s3_wait"
                   /\ UNCHANGED <<result, raised, store, events>>
              ELSE /\ calls' = Forget(1) \o
                               Stage2Calls(IF framework = "debate" THEN "critique"
                                           ELSE "ranking", active, s1)
                   /\ pc' = "s2_wait"
                   /\ UNCHANGED <<stage2_results, label_to_model, result, raised, store,
                                  events>>
    /\ responses' = <<>>
    /\ UNCHANGED <<request, direct, title_task, title,
                   done_order, reordered, aggregate_rankings, stage3_result>>

\* event_generator is resumed at `yield stage1_complete` (line 263) and runs to
\* `yield stage2_start` (line 266)
ResumeStage2Start ==
    /\ pc = "yield_stage1_complete"
    /\ events' = Yield(<<"stage2_start">>)
    /\ pc' = "yield_stage2_start"
    /\ UNCHANGED <<request, direct, store, title_task, title, calls, done_order,
                   reordered, responses, stage1_results, stage2_results, label_to_model,
                   aggregate_rankings, stage3_result, result, raised>>

\* event_generator is resumed at `yield stage2_start` (line 266): for ensemble it
\* builds the labels and runs to `yield stage2_skipped` (lines 268-273); otherwise it
\* runs to the await of the Stage-2 batch (lines 277, 281)
ResumeStage2 ==
    /\ pc = "yield_stage2_start"
    /\ IF framework = "ensemble"
       THEN /\ stage2_results' = <<>>
            /\ label_to_model' = LabelToModel(stage1_results)
            /\ aggregate_rankings' = <<>>
            /\ events' = Yield(<<"stage2_skipped">>)
            /\ pc' = "yield_stage2_skipped"
            /\ UNCHANGED calls
       ELSE /\ calls' = calls \o
                        Stage2Calls(IF framework = "debate" THEN "critique" ELSE "ranking",
                                    ActiveModels(council_models), stage1_results)
            /\ pc' = "s2_wait"
            /\ UNCHANGED <<stage2_results, label_to_model, aggregate_rankings, events>>
    /\ UNCHANGED <<request, direct, store, title_task, title, done_order, reordered,
                   responses, stage1_results, stage3_result, result, raised>>

\* the aggregate of a run: run_full_council computes it for the ranking frameworks
\* when stage2_results is not empty (lines 338-340), event_generator for the ranking
\* frameworks always (line 282)
Aggregate(s2, l2m) ==
    IF framework \in {"standard", "six_hats"} /\ (variant = "stream" \/ s2 # <<>>)
    THEN CalculateAggregateRankings(s2, l2m)
    ELSE Returned(<<>>)

\* Stage 2 returns (or raises).  run_full_council runs up to the chairman call;
\* event_generator runs to `yield stage2_complete` (lines 278, 283)
Stage2Done ==
    /\ pc = "s2_ret"
    /\ LET s2 == IF framework = "debate" THEN Returned(Stage2Critiques(responses))
                 ELSE Stage2Rankings(responses)
           l2m == LabelToModel(stage1_results)
           agg == IF s2.raised THEN s2 ELSE Aggregate(s2.value, l2m)
       IN  IF s2.raised \/ agg.raised
           THEN /\ Fail(IF s2.raised THEN s2.exc ELSE agg.exc)
                /\ calls' = Forget(2)
                /\ UNCHANGED <<stage2_results, label_to_model, aggregate_rankings>>
           ELSE /\ stage2_results' = s2.value
                /\ label_to_model' = l2m
                /\ aggregate_rankings' = agg.value
                /\ IF variant = "stream"
                   THEN /\ calls' = Forget(2)
                        /\ events' = Yield(<<"stage2_complete">>)
                        /\ pc' = "yield_stage2_complete"
                   ELSE /\ calls' = Append(Forget(2),
                                           Call(3, ActiveChairman(chairman_model),
                                                ChairmanMessages(framework, stage1_results,
                                                                 s2.value)))
                        /\ pc' = "s3_wait"
                        /\ UNCHANGED events
                /\ UNCHANGED raised
    /\ responses' = <<>>
    /\ UNCHANGED <<request, direct, store, title_task, title,
                   done_order, reordered, stage1_results, stage3_result, result>>

\* event_generator is resumed at `yield stage2_skipped` or `yield stage2_complete`
\* (lines 273, 278, 283) and runs to `yield stage3_start` (line 286)
ResumeStage3Start ==
    /\ pc \in {"yield_stage2_skipped", "yield_stage2_complete"}
    /\ events' = Yield(<<"stage3_start">>)
    /\ pc' = "yield_stage3_start"
    /\ UNCHANGED <<request, direct, store, title_task, title, calls, done_order,
                   reordered, responses, stage1_results, stage2_results, label_to_model,
                   aggregate_rankings, stage3_result, result, raised>>

\* event_generator is resumed at `yield stage3_start` (line 286) and runs to the
\* await of the chairman call (line 287)
ResumeStage3 ==
    /\ pc = "yield_stage3_start"
    /\ calls' = Append(calls, Call(3, ActiveChairman(chairman_model),
                                   ChairmanMessages(framework, stage1_results,
                                                    stage2_results)))
    /\ pc' = "s3_wait"
    /\ UNCHANGED <<request, direct, store, title_task, title, done_order, reordered,
                   responses, stage1_results, stage2_results, label_to_model,
                   aggregate_rankings, stage3_result, result, raised, events>>

\* the chairman call returns.  run_full_council builds the metadata and returns, and
\* send_message stores the assistant message; event_generator runs to
\* `yield stage3_complete` (line 288), where nothing has been stored yet
Stage3Done ==
    /\ pc = "s3_ret"
    /\ LET chairman == ActiveChairman(chairman_model)
           s3 == Stage3Result(chairman, responses[1][2])
       IN  /\ stage3_result' = Some(s3)
           /\ IF variant = "stream"
              THEN /\ events' = Yield(<<"stage3_complete">>)
                   /\ pc' = "yield_stage3_complete"
                   /\ UNCHANGED <<result, raised, store>>
              ELSE /\ result' =
                        Some([stage1 |-> stage1_results, stage2 |-> stage2_results,
                              stage3 |-> s3,
                              metadata |-> Metadata(framework, stage1_results, chairman,
                                                    label_to_model, aggregate_rankings)])
                   /\ \E gone \in BOOLEAN :
                         LET added == AddAssistantMessage(Found(gone), ConversationId,
                                          UserId, stage1_results, stage2_results, s3)
                         IN  /\ store' = added.store
                             /\ IF added.ret.raised
                                THEN Fail(added.ret.exc)
                                ELSE pc' = "done" /\ UNCHANGED <<raised, events>>
    /\ calls' = Forget(3)
    /\ responses' = <<>>
    /\ UNCHANGED <<request, direct, title_task, title,
                   done_order, reordered, stage1_results, stage2_results, label_to_model,
                   aggregate_rankings>>

\* an event_generator that emits the title as soon as the title task is done, while
\* the chairman call is still awaited
TitleAwaited_BeforeStage3 ==
    /\ pc \in {"title_first", "title_wait", "s3_wait"}
    /\ title_task # None
    /\ Val(title_task).status = "done"
    /\ pc = "s3_wait" => (title = None /\ ~Val(Val(title_task).ret).raised)
    /\ LET ret == Val(Val(title_task).ret)
       IN  IF ret.raised
           THEN /\ Fail(ret.exc)
                /\ UNCHANGED <<title, store>>
           ELSE /\ title' = Some(ret.value)
                /\ store' = UpdateConversationTitle(store, ConversationId, UserId,
                                                     ret.value).store
                /\ pc' = IF pc = "title_first" THEN "start"
                         ELSE IF pc = "s3_wait" THEN pc ELSE "yield_title_complete"
                /\ events' = IF pc = "title_first" THEN events
                             ELSE Yield(<<"title_complete">>)
                /\ UNCHANGED raised
    /\ UNCHANGED <<request, direct, title_task, calls, done_order, reordered, responses,
                   stage1_results, stage2_results, label_to_model, aggregate_rankings,
                   stage3_result, result>>

\* the awaited title task is done (main.py 191-192, 293-295): the await raises what
\* the task raised, or returns the title, which update_conversation_title stores;
\* send_message goes on to the council, event_generator to `yield title_complete`
TitleReturned ==
    LET ret == Val(Val(title_task).ret)
    IN  IF ret.raised
        THEN /\ Fail(ret.exc)
             /\ UNCHANGED <<title, store>>
        ELSE \E gone \in BOOLEAN :
                LET updated == UpdateConversationTitle(Found(gone), ConversationId,
                                                       UserId, ret.value)
                IN  /\ store' = updated.store
                    /\ IF updated.ret.raised
                       THEN /\ Fail(updated.ret.exc)
                            /\ UNCHANGED title
                       ELSE /\ title' = Some(ret.value)
                            /\ pc' = IF variant = "full" THEN "start"
                                     ELSE "yield_title_complete"
                            /\ events' = Yield(<<"title_complete">>)
                            /\ UNCHANGED raised

\* `await generate_conversation_title(...)` in send_message (line 191) and
\* `await title_task` in event_generator (line 293) resume when the task is done
TitleAwaited ==
    /\ pc \in {"title_first", "title_wait"}
    /\ title_task # None
    /\ Val(title_task).status = "done"
    /\ TitleReturned
    /\ UNCHANGED <<request, direct, title_task, calls, done_order, reordered, responses,
                   stage1_results, stage2_results, label_to_model, aggregate_rankings,
                   stage3_result, result>>

\* event_generator is resumed at `yield stage3_complete` (line 288) with a title
\* task (lines 291-295): a task that is done is read at once, and the generator
\* runs to `yield title_complete`; otherwise the generator awaits the task
ResumeTitle ==
    /\ pc = "yield_stage3_complete"
    /\ title_task # None
    /\ IF Val(title_task).status = "done"
       THEN TitleReturned
       ELSE /\ pc' = "title_wait"
            /\ UNCHANGED <<title, store, raised, events>>
    /\ UNCHANGED <<request, direct, title_task, calls, done_order, reordered, responses,
                   stage1_results, stage2_results, label_to_model, aggregate_rankings,
                   stage3_result, result>>

\* event_generator is resumed at `yield title_complete` (line 295), or at
\* `yield stage3_complete` (line 288) when no title task was started: the assistant
\* message is stored and the generator runs to `yield complete` (lines 298-307)
ResumeSave ==
    /\ \/ pc = "yield_title_complete"
       \/ pc = "yield_stage3_complete" /\ title_task = None
    /\ \E gone \in BOOLEAN :
          LET added == AddAssistantMessage(Found(gone), ConversationId, UserId,
                                           stage1_results, stage2_results,
                                           Val(stage3_result))
          IN  /\ store' = added.store
              /\ IF added.ret.raised
                 THEN Fail(added.ret.exc)
                 ELSE /\ events' = Yield(<<"complete">>)
                      /\ pc' = "done"
                      /\ UNCHANGED raised
    /\ UNCHANGED <<request, direct, title_task, title, calls, done_order, reordered,
                   responses, stage1_results, stage2_results, label_to_model,
                   aggregate_rankings, stage3_result, result>>

Next ==
    \/ StartStage1
    \/ StartTitle
    \/ TitleTaskDone
    \/ TitleAwaited
    \/ \E i \in 1..Len(calls) : Complete(i)
    \/ BatchReturn
    \/ Stage1Done
    \/ Stage2Done
    \/ Stage3Done
    \/ ResumeStage1
    \/ ResumeStage2Start
    \/ ResumeStage2
    \/ ResumeStage3Start
    \/ ResumeStage3
    \/ ResumeTitle
    \/ ResumeSave

Spec == Init /\ [][Next]_vars

(***************************************************************************)
(* Properties of a run                                                     *)
(***************************************************************************)
CallsOf(stage) == {i \in 1..Len(calls) : calls[i].stage = stage}

\* every call of the stage has been issued and has finished
StageOver(stage) ==
    /\ CallsOf(stage) # {}
    /\ \A i \in CallsOf(stage) : calls[i].status = "done"

\* the positions of a run from the await of the chairman call on
FromStage3 ==
    {"s3_wait", "s3_ret", "yield_stage3_complete", "title_wait", "yield_title_complete",
     "done"}

\* Stage 1 has returned to the orchestrator, which has acted on its results: it has
\* issued the calls that follow Stage 1, or has ended
AfterStage1 ==
    /\ StageOver(1)
    /\ pc \in {"s2_wait", "s2_ret", "yield_stage2_complete"} \cup FromStage3
          \/ (pc = "yield_stage3_start" /\ framework # "ensemble")

\* the conversation of the request was deleted while the request was served, and a
\* storage call of the handler has raised for it
ConversationGone == store.conversations[ConversationId] = None

\* the title coroutine ended with an exception
TitleFailed ==
    /\ title_task # None
    /\ Val(title_task).status = "done"
    /\ Val(Val(title_task).ret).raised

\* the identifier under which the Stage-1 outcome of the call at council position k
\* is reported
Stage1Name(k) ==
    LET i == BatchOf(1)[k]
    IN  IF framework = "six_hats" THEN calls[i].model \o " (" \o HatOf(k) \o ")"
        ELSE calls[i].model

\* a is b with some elements left out, the order kept
RECURSIVE IsSubseq(_, _)
IsSubseq(a, b) ==
    IF a = <<>> THEN TRUE
    ELSE IF b = <<>> THEN FALSE
    ELSE IF a[1] = b[1] THEN IsSubseq(Tail(a), Tail(b))
    ELSE IsSubseq(a, Tail(b))

\* C1: in run_full_council, if every Stage-1 call fails, no Stage-2 or Stage-3 call
\* is ever issued and the run returns the empty Stage-1 and Stage-2 sequences with
\* the synthetic "error" result
C1_AllFailedShortCircuits ==
    (/\ variant = "full"
     /\ StageOver(1)
     /\ \A i \in CallsOf(1) : calls[i].failed)
    => /\ CallsOf(2) = {} /\ CallsOf(3) = {}
       /\ pc = "done" => result = Some(ReturnError)

\* C2: if some but not all Stage-1 calls fail, no failed model is in the Stage-1
\* results, has a label, or appears in the Stage-2 and chairman prompts, and
\* Stages 2 and 3 still run
C2_FailedModelsExcluded ==
    (/\ AfterStage1
     /\ \E i \in CallsOf(1) : calls[i].failed
     /\ \E i \in CallsOf(1) : ~calls[i].failed)
    => /\ \A k \in 1..Len(BatchOf(1)) :
            calls[BatchOf(1)[k]].failed
            => /\ \A j \in 1..Len(stage1_results) : stage1_results[j].model # Stage1Name(k)
               /\ \A j \in 1..Len(label_to_model) : label_to_model[j][2] # Stage1Name(k)
               /\ \A c \in CallsOf(3) :
                    \A j \in 1..Len(calls[c].messages.stage1) :
                        calls[c].messages.stage1[j][1] # Stage1Name(k)
       /\ \A c \in CallsOf(2) \cup CallsOf(3) :
            Len(calls[c].messages.stage1)
              = Cardinality({i \in CallsOf(1) : ~calls[i].failed})
       /\ pc = "done" => raised = None /\ CallsOf(3) # {}

\* C3: no Stage-2 call exists while a Stage-1 call is still in flight, and no
\* Stage-3 call exists while a Stage-1 or Stage-2 call is still in flight
C3_StagesInOrder ==
    \A i, j \in 1..Len(calls) :
        calls[i].stage < calls[j].stage => calls[i].status = "done"

\* C3 witness: the chairman call has been issued after a Stage-2 batch of at least
\* two calls that followed a Stage-1 batch finishing out of request order
C3_Witness ==
    /\ CallsOf(3) # {}
    /\ Cardinality(CallsOf(2)) >= 2
    /\ reordered

\* C4: every finished query_model call returned a response and raised nothing; when
\* the cause was a failure (no credential, non-2xx status, network error or timeout,
\* malformed payload) the response has no content and an error, and it has a
\* status code exactly when the failure was an HTTP status error
C4_QueryModelNeverRaises ==
    \A i \in 1..Len(calls) :
        (calls[i].status = "done" /\ calls[i].outcome # None)
        => LET o == Val(calls[i].outcome)
               r == Val(calls[i].ret)
               failure == ~api_key \/ o.kind \in {"status", "network", "malformed"}
           IN  /\ ~r.raised
               /\ r.value # None
               /\ failure =>
                    /\ Val(r.value).content = None
                    /\ Val(r.value).error # None
                    /\ (Val(r.value).status_code # None) <=> (api_key /\ o.kind = "status")
                    /\ (api_key /\ o.kind = "status")
                         => Val(r.value).status_code = Some(o.status)

\* C4 witness: a call that ended on HTTP 429 has returned its error response
C4_Witness ==
    \E i \in 1..Len(calls) :
        /\ calls[i].status = "done" /\ calls[i].outcome # None
        /\ Val(calls[i].outcome).kind = "status"
        /\ Val(Val(calls[i].ret).value).status_code = Some(429)
        /\ Val(Val(calls[i].ret).value).error = Some("429: Too Many Requests")

\* the batch just returned came from query_models_parallel, over distinct identifiers
DispatcherReturned ==
    /\ pc \in {"s1_ret", "s2_ret"}
    /\ ~(pc = "s1_ret" /\ framework = "six_hats")
    /\ \A i, j \in CallsOf(StageOf(pc)) : i # j => calls[i].model # calls[j].model

\* C5: query_models_parallel over distinct identifiers returns one entry per input
\* model, each holding what that model's own call returned, failures included with
\* their error
C5_DispatcherKeepsEveryOutcome ==
    DispatcherReturned
    => LET batch == BatchOf(StageOf(pc))
       IN  /\ Len(responses) = Len(batch)
           /\ \A k \in 1..Len(batch) :
                /\ responses[k][1] = calls[batch[k]].model
                /\ responses[k][2] = Val(calls[batch[k]].ret).value
                /\ calls[batch[k]].failed
                     => responses[k][2] # None /\ Val(responses[k][2]).error # None

\* C5 witness: of two distinct models one failed and one answered, and the mapping
\* has been returned
C5_Witness ==
    /\ DispatcherReturned
    /\ Len(responses) = 2
    /\ \E i, j \in CallsOf(StageOf(pc)) : calls[i].failed /\ ~calls[j].failed

(***************************************************************************)
(* Long council lists.  The label mapping and the hat assignment depend on *)
(* positions in the council list and not on how the calls interleave, so   *)
(* lists long enough to cycle through the six hats, and the empty list     *)
(* that stands for the six default models, are explored in runs where the  *)
(* provider answers every call, one after the other in request order.      *)
(***************************************************************************)
\* longest council list explored in these runs
MaxLongCouncil == 7

LongCouncilLists ==
    {<<>>} \cup {l \in SeqsUpTo(Models, MaxLongCouncil) : Len(l) > 0 /\ l[1] = "m1"}

InitLabels ==
    /\ api_key = TRUE
    /\ variant \in {"full", "stream"}
    /\ framework \in Frameworks
    /\ council_models \in LongCouncilLists
    /\ chairman_model \in {None, Some("c1")}
    /\ is_first_message = FALSE
    /\ conversation_messages = PriorTurns
    /\ pc = "start"
    /\ calls = <<>>
    /\ done_order = <<>>
    /\ reordered = FALSE
    /\ responses = <<>>
    /\ stage1_results = <<>>
    /\ stage2_results = <<>>
    /\ label_to_model = <<>>
    /\ aggregate_rankings = <<>>
    /\ stage3_result = None
    /\ result = None
    /\ raised = None
    /\ events = <<>>
    /\ title_task = None
    /\ title = None
    /\ parse_arg = None
    /\ parse_ret = None
    /\ store = Stored(framework, council_models, chairman_model, conversation_messages)
    /\ storage_op = None
    /\ requests = None
    /\ limiter = None
    /\ stream = None

\* what the provider answers to a call of each stage in these runs
AnswerOf(stage) ==
    OkOutcome(Some(IF stage = 1 THEN <<"a">>
                   ELSE IF stage = 2 THEN TextRankedBA ELSE <<"s">>))

\* the in-flight call that was issued first is answered
CompleteNextOk ==
    /\ pc \in {"s1_wait", "s2_wait", "s3_wait"}
    /\ \E i \in 1..Len(calls) :
          /\ calls[i].status = "inflight"
          /\ \A j \in 1..(i - 1) : calls[j].status # "inflight"
          /\ calls' = [calls EXCEPT ![i] =
                         [@ EXCEPT !.status = "done",
                                   !.outcome = Some(AnswerOf(calls[i].stage)),
                                   !.ret = Some(QueryModel(api_key, AnswerOf(calls[i].stage)))]]
          /\ done_order' = Append(done_order,
                                  i - Cardinality({j \in 1..Len(calls) :
                                                     calls[j].stage < calls[i].stage}))
    /\ UNCHANGED <<request, direct, store, title_task, title, pc,
                   reordered, responses, stage1_results, stage2_results, label_to_model,
                   aggregate_rankings, stage3_result, result, raised, events>>

NextLabels ==
    \/ StartStage1
    \/ CompleteNextOk
    \/ BatchReturn
    \/ Stage1Done
    \/ Stage2Done
    \/ Stage3Done
    \/ ResumeStage1
    \/ ResumeStage2Start
    \/ ResumeStage2
    \/ ResumeStage3Start
    \/ ResumeStage3
    \/ ResumeSave

SpecLabels == InitLabels /\ [][NextLabels]_vars

(***************************************************************************)
(* Six hats over long council lists.  Stage 1 of a six_hats run is         *)
(* followed for the six default models and for supplied lists long enough  *)
(* to come back to the White Hat, under every order in which the calls     *)
(* finish.  Each call is answered with a text of its own, so that an       *)
(* answer paired with another position shows.                              *)
(***************************************************************************)
\* longest council list explored in these runs
MaxHatCouncil == 7

\* the empty list (the default models are asked) and one supplied list of each length
HatCouncilLists ==
    {<<>>} \cup {[k \in 1..n |-> IF k % 2 = 1 THEN "m1" ELSE "m2"] : n \in 1..MaxHatCouncil}

InitHats ==
    /\ api_key = TRUE
    /\ variant \in {"full", "stream"}
    /\ framework = "six_hats"
    /\ council_models \in HatCouncilLists
    /\ chairman_model = None
    /\ is_first_message = FALSE
    /\ conversation_messages = PriorTurns
    /\ pc = "start"
    /\ calls = <<>>
    /\ done_order = <<>>
    /\ reordered = FALSE
    /\ responses = <<>>
    /\ stage1_results = <<>>
    /\ stage2_results = <<>>
    /\ label_to_model = <<>>
    /\ aggregate_rankings = <<>>
    /\ stage3_result = None
    /\ result = None
    /\ raised = None
    /\ events = <<>>
    /\ title_task = None
    /\ title = None
    /\ parse_arg = None
    /\ parse_ret = None
    /\ store = Stored(framework, council_models, chairman_model, conversation_messages)
    /\ storage_op = None
    /\ requests = None
    /\ limiter = None
    /\ stream = None

\* the text the provider answers to the call at position i
HatText(i) == <<<<"1", "2", "3", "4", "5", "6", "7", "8", "9">>[i]>>

\* what the provider does with the Stage-1 call at position i in these runs: it
\* answers with the text of that position; the first call may also fail
HatOutcomes(i) ==
    {OkOutcome(Some(HatText(i)))} \cup (IF i = 1 THEN {ServerError} ELSE {})

\* one in-flight Stage-1 call finishes
CompleteHat(i) ==
    /\ pc = "s1_wait"
    /\ CompleteWith(i, HatOutcomes(i))

NextHats ==
    \/ StartStage1
    \/ ResumeStage1
    \/ \E i \in 1..Len(calls) : CompleteHat(i)
    \/ BatchReturn
    \/ Stage1Done

SpecHats == InitHats /\ [][NextHats]_vars

\* C6: once built, LabelToModel has one key "Response A", "Response B", ... per
\* Stage-1 outcome, without gap or repeat, and no two labels map to the same
\* model identifier
C6_LabelsBijective ==
    label_to_model # <<>>
    => /\ Len(label_to_model) = Len(stage1_results)
       /\ \A k \in 1..Len(label_to_model) :
            label_to_model[k][1] = "Response " \o UpperLetters[k]
       /\ \A j, k \in 1..Len(label_to_model) :
            j # k => label_to_model[j][2] # label_to_model[k][2]

\* C7: on the whole-batch path the labels follow request order whatever the order in
\* which the Stage-1 calls finished: the j-th label maps to the j-th kept outcome,
\* the kept outcomes are in council-list order, and each carries the response of a
\* call made for that council position
C7_LabelsFollowRequestOrder ==
    label_to_model # <<>>
    => LET n == Len(BatchOf(1))
           names == [k \in 1..n |-> Stage1Name(k)]
           kept == [j \in 1..Len(stage1_results) |-> stage1_results[j].model]
       IN  /\ Len(label_to_model) = Len(stage1_results)
           /\ \A j \in 1..Len(label_to_model) :
                label_to_model[j] = <<"Response " \o Chr(64 + j), kept[j]>>
           /\ IsSubseq(kept, names)
           /\ \A j \in 1..Len(stage1_results) :
                \E k \in 1..n :
                    /\ names[k] = kept[j]
                    /\ calls[BatchOf(1)[k]].failed => stage1_results[j].response = None

\* C7 witness: the labels have been assigned to two outcomes, one of them failed,
\* after the Stage-1 calls finished in another order than they were issued
C7_Witness ==
    /\ Len(label_to_model) = 2
    /\ reordered
    /\ \E i, j \in CallsOf(1) : calls[i].failed /\ ~calls[j].failed

\* C8: if the chairman call fails, the Stage-3 result is the fixed apology attributed
\* to the chairman, the run does not fail and returns the Stage-1 and Stage-2
\* results unchanged
C8_ChairmanFailureApology ==
    (/\ pc = "done"
     /\ stage3_result # None
     /\ \E c \in CallsOf(3) : calls[c].failed)
    => /\ Val(stage3_result) = [model |-> ActiveChairman(chairman_model),
                                response |-> Some(SynthesisApology)]
       /\ raised = None
       /\ variant = "full"
            => /\ result # None
               /\ Val(result).stage1 = stage1_results
               /\ Val(result).stage2 = stage2_results

\* C9: the metadata of a run that reached Stage 3 has a stage1_errors entry listing
\* exactly the council models whose Stage-1 call failed
C9_MetadataListsStage1Errors ==
    (/\ variant = "full"
     /\ pc = "done"
     /\ result # None
     /\ CallsOf(3) # {})
    => LET metadata == Val(result).metadata
           failures == {k \in 1..Len(BatchOf(1)) : calls[BatchOf(1)[k]].failed}
       IN  /\ DictHas(metadata, "stage1_errors")
           /\ LET errors == DictGet(metadata, "stage1_errors")
              IN  /\ Len(errors) = Cardinality(failures)
                  /\ {errors[j].model : j \in 1..Len(errors)}
                       = {Stage1Name(k) : k \in failures}

\* C10: if a Stage-2 call fails after a Stage-1 success, the run does not fail, the
\* failed model contributes no Stage-2 outcome, and Stage 3 is executed and returned
C10_Stage2FailureTolerated ==
    (/\ pc \in FromStage3
     /\ StageOver(2)
     /\ ~TitleFailed
     /\ \E i \in CallsOf(2) : calls[i].failed
     /\ \E i \in CallsOf(1) : ~calls[i].failed)
    => /\ raised = None
       /\ "error" \notin Range(events)
       /\ CallsOf(3) # {}
       /\ \A i \in CallsOf(2) :
            (calls[i].failed /\ \A j \in CallsOf(2) : calls[j].model = calls[i].model => j = i)
            => \A j \in 1..Len(stage2_results) : stage2_results[j].model # calls[i].model
       /\ (pc = "done" /\ variant = "full") => result # None

\* the text holds no "Response X" anywhere
NoLabelIn(text) == \A p \in 1..Len(text) : ~LabelAt(text, p)

\* how many labels of a parsed ranking the mapping knows
Attributed(parsed, l2m) == Cardinality({k \in 1..Len(parsed) : DictHas(l2m, parsed[k])})

\* the response carries a text, and the text holds no label
Unparseable(response) ==
    /\ response # None
    /\ Val(response).content # None
    /\ NoLabelIn(Val(Val(response).content))

\* C11: when the Stage-2 batch of a ranking framework returns with an answer whose
\* text holds no parseable ranking, the run goes on to Stage 3 without an error, that
\* answer is kept with its text and an empty parsed ranking, and the aggregate counts
\* exactly the ranks the kept answers attribute
C11_UnparseableRankingIsEmpty ==
    [][(/\ framework \in {"standard", "six_hats"}
        /\ pc = "s2_ret"
        /\ pc' # pc
        /\ \E j \in 1..Len(responses) : Unparseable(responses[j][2]))
       => /\ pc' = IF variant = "stream" THEN "yield_stage2_complete" ELSE "s3_wait"
          /\ raised' = None
          /\ "error" \notin Range(events')
          /\ \A j \in 1..Len(responses) :
               Unparseable(responses[j][2])
               => \E i \in 1..Len(stage2_results') :
                     stage2_results'[i] = [model |-> responses[j][1],
                                           ranking |-> Val(responses[j][2]).content,
                                           parsed_ranking |-> <<>>]
          /\ SumSeq([i \in 1..Len(aggregate_rankings') |->
                       aggregate_rankings'[i].rankings_count])
               = SumSeq([i \in 1..Len(stage2_results') |->
                           Attributed(stage2_results'[i].parsed_ranking,
                                      label_to_model')])]_vars

\* a streaming run has ended without an error event
StreamCompleted == variant = "stream" /\ pc = "done" /\ "error" \notin Range(events)

\* C12: a streaming run that completes without error emits stage1_start,
\* stage1_complete, stage2_start, one of stage2_complete and stage2_skipped,
\* stage3_start, then only stage3 text chunks, and complete as its last event
C12_StreamEventOrder ==
    StreamCompleted
    => /\ Len(events) >= 6
       /\ SubSeq(events, 1, 3) = <<"stage1_start", "stage1_complete", "stage2_start">>
       /\ events[4] \in {"stage2_complete", "stage2_skipped"}
       /\ events[5] = "stage3_start"
       /\ \A k \in 6..(Len(events) - 1) : events[k] = "stage3"
       /\ events[Len(events)] = "complete"

\* C13: in an ensemble run with a Stage-1 success no Stage-2 call is issued, the
\* Stage-2 results and the aggregate are empty, the labels cover exactly the Stage-1
\* successes, the stream says stage2_skipped and never stage2_complete, and the
\* chairman is given the Stage-1 answers alone
C13_EnsembleSkipsStage2 ==
    (/\ framework = "ensemble"
     /\ AfterStage1
     /\ \E i \in CallsOf(1) : ~calls[i].failed)
    => LET n == Len(BatchOf(1))
       IN  /\ CallsOf(2) = {}
           /\ stage2_results = <<>>
           /\ aggregate_rankings = <<>>
           /\ label_to_model # <<>>
           /\ \A j \in 1..Len(label_to_model) :
                \E k \in 1..n :
                    Stage1Name(k) = label_to_model[j][2] /\ ~calls[BatchOf(1)[k]].failed
           /\ \A k \in 1..n :
                ~calls[BatchOf(1)[k]].failed
                => \E j \in 1..Len(label_to_model) : label_to_model[j][2] = Stage1Name(k)
           /\ variant = "stream"
                => /\ "stage2_skipped" \in Range(events)
                   /\ "stage2_complete" \notin Range(events)
           /\ CallsOf(3) # {}
           /\ \A c \in CallsOf(3) :
                /\ calls[c].messages.stage2 = <<>>
                /\ Len(calls[c].messages.stage1) = Len(label_to_model)
                /\ \A j \in 1..Len(label_to_model) :
                     calls[c].messages.stage1[j][1] = label_to_model[j][2]

\* C14: in a debate run every Stage-2 outcome carries the text its model's call
\* returned in the ranking field and an empty parsed ranking, whatever the text
\* holds, and the aggregate ranking is empty
C14_DebateCritiquesUnparsed ==
    /\ [](framework = "debate"
          => /\ aggregate_rankings = <<>>
             /\ \A j \in 1..Len(stage2_results) : stage2_results[j].parsed_ranking = <<>>)
    /\ [][(framework = "debate" /\ pc = "s2_ret" /\ pc' # pc)
          => /\ pc' = IF variant = "stream" THEN "yield_stage2_complete" ELSE "s3_wait"
             /\ Len(stage2_results') = Len(responses)
             /\ \A j \in 1..Len(responses) :
                  stage2_results'[j] = [model |-> responses[j][1],
                                        ranking |-> Val(responses[j][2]).content,
                                        parsed_ranking |-> <<>>]]_vars

\* C14 witness: a debate run has ended with a critique that holds a well-formed
\* "FINAL RANKING:" list, kept as text and not parsed
C14_Witness ==
    /\ framework = "debate"
    /\ pc = "done"
    /\ stage3_result # None
    /\ \E j \in 1..Len(stage2_results) :
         /\ stage2_results[j].ranking = Some(TextRankedBA)
         /\ stage2_results[j].parsed_ranking = <<>>

\* C15: in six_hats Stage 1 the call at council position k is made with hat number
\* (k - 1) mod 6 of White, Red, Black, Yellow, Green, Blue, and whatever the order in
\* which the calls finish, the outcome at position k is named "<model_k> (<hat_k>)"
\* and carries the content that call returned
C15_SixHatsPairing ==
    /\ [](framework = "six_hats"
          => \A k \in 1..Len(BatchOf(1)) :
               /\ calls[BatchOf(1)[k]].model = ActiveModels(council_models)[k]
               /\ calls[BatchOf(1)[k]].messages.hat
                    = <<"White Hat", "Red Hat", "Black Hat",
                        "Yellow Hat", "Green Hat", "Blue Hat">>[((k - 1) % 6) + 1])
    /\ [][(framework = "six_hats" /\ pc = "s1_ret" /\ pc' # pc)
          => /\ Len(stage1_results') = Len(BatchOf(1))
             /\ \A k \in 1..Len(BatchOf(1)) :
                  LET call == calls[BatchOf(1)[k]]
                  IN  stage1_results'[k] =
                        [model |-> call.model \o " (" \o call.messages.hat \o ")",
                         response |-> Val(Val(call.ret).value).content]]_vars

\* C15 witness: over a supplied list of seven models the calls finished out of
\* request order, the first failed, and the outcomes have been built: the sixth wears
\* the Blue Hat, the seventh the White Hat again, each with the answer of its own call
C15_Witness ==
    /\ framework = "six_hats"
    /\ reordered
    /\ Len(stage1_results) = 7
    /\ stage1_results[1] = [model |-> "m1 (White Hat)", response |-> None]
    /\ stage1_results[6] = [model |-> "m2 (Blue Hat)", response |-> Some(HatText(6))]
    /\ stage1_results[7] = [model |-> "m1 (White Hat)", response |-> Some(HatText(7))]

(***************************************************************************)
(* Direct calls of parse_ranking_from_text.  The argument is put together  *)
(* from pieces that each end a line (or are the marker), so that no entry, *)
(* label or marker is formed across two pieces and what a text holds can be *)
(* read off its pieces.                                                    *)
(***************************************************************************)
\* most pieces in an argument
MaxPieces == 4

Piece(text, kind, label) == [text |-> text, kind |-> kind, label |-> label]

\* the marker; two numbered entries; a label outside any entry; a line without
\* label; an entry-like line whose "response" is not capitalised
Pieces ==
    { Piece(MARKER, "marker", ""),
      Piece(<<"1", ".", " ", "R", "e", "s", "p", "o", "n", "s", "e", " ", "C", "\n">>, "numbered", "Response C"),
      Piece(<<"2", ".", " ", "R", "e", "s", "p", "o", "n", "s", "e", " ", "A", "\n">>, "numbered", "Response A"),
      Piece(<<"R", "e", "s", "p", "o", "n", "s", "e", " ", "B", "\n">>, "label", "Response B"),
      Piece(<<"x", "\n">>, "filler", ""),
      Piece(<<"3", ".", " ", "r", "e", "s", "p", "o", "n", "s", "e", " ", "D", "\n">>, "filler", "") }

RECURSIVE Flatten(_)
Flatten(ps) == IF ps = <<>> THEN <<>> ELSE ps[1].text \o Flatten(Tail(ps))

InitParser ==
    /\ api_key = TRUE
    /\ variant = "full"
    /\ framework = "standard"
    /\ council_models = <<>>
    /\ chairman_model = None
    /\ is_first_message = FALSE
    /\ conversation_messages = PriorTurns
    /\ pc = "parse"
    /\ calls = <<>>
    /\ done_order = <<>>
    /\ reordered = FALSE
    /\ responses = <<>>
    /\ stage1_results = <<>>
    /\ stage2_results = <<>>
    /\ label_to_model = <<>>
    /\ aggregate_rankings = <<>>
    /\ stage3_result = None
    /\ result = None
    /\ raised = None
    /\ events = <<>>
    /\ title_task = None
    /\ title = None
    /\ parse_arg \in {Some(ps) : ps \in SeqsUpTo(Pieces, MaxPieces)}
    /\ parse_ret = None
    /\ store = None
    /\ storage_op = None
    /\ requests = None
    /\ limiter = None
    /\ stream = None

\* parse_ranking_from_text(text) is called and returns
ParseCall ==
    /\ pc = "parse"
    /\ parse_ret' = Some(ParseRankingFromText(Some(Flatten(Val(parse_arg)))))
    /\ pc' = "parsed"
    /\ UNCHANGED <<request, parse_arg, stream, storage_op, requests, limiter, store, calls, done_order, reordered, responses,
                   stage1_results, stage2_results, label_to_model, aggregate_rankings,
                   stage3_result, result, raised, events, title_task, title>>

NextParser == ParseCall

SpecParser == InitParser /\ [][NextParser]_vars

\* position of the first marker among the pieces, 0 if there is none
FirstMarker(ps) ==
    LET at == {i \in 1..Len(ps) : ps[i].kind = "marker"}
    IN  IF at = {} THEN 0 ELSE CHOOSE i \in at : \A j \in at : i <= j

\* the ranking section: everything after the first marker
SectionOf(ps) == SubSeq(ps, FirstMarker(ps) + 1, Len(ps))

\* the labels held by the pieces of the given kinds, in order of appearance
RECURSIVE LabelsOf(_, _)
LabelsOf(ps, kinds) ==
    IF ps = <<>> THEN <<>>
    ELSE (IF ps[1].kind \in kinds THEN <<ps[1].label>> ELSE <<>>)
         \o LabelsOf(Tail(ps), kinds)

\* the parser has been called and has ended
Parsed == pc = "parsed" /\ parse_ret # None

\* C16: when the text holds the marker and its ranking section holds a numbered
\* entry, the result is the labels of the section's numbered entries, in order, and
\* no label outside an entry
C16_CanonicalPath ==
    (/\ Parsed
     /\ FirstMarker(Val(parse_arg)) # 0
     /\ LabelsOf(SectionOf(Val(parse_arg)), {"numbered"}) # <<>>)
    => Val(parse_ret) = Returned(LabelsOf(SectionOf(Val(parse_arg)), {"numbered"}))

\* how many times the marker occurs
MarkerCount(ps) == Cardinality({i \in 1..Len(ps) : ps[i].kind = "marker"})

\* what the extraction rules give for a ranking section: its numbered entries if it
\* has any, else every label in it
ExtractFrom(section) ==
    IF LabelsOf(section, {"numbered"}) # <<>> THEN LabelsOf(section, {"numbered"})
    ELSE LabelsOf(section, {"numbered", "label"})

\* C17: when the marker occurs more than once, the ranking section is everything
\* after its first occurrence, what follows a later marker included
C17_SectionAfterFirstMarker ==
    (Parsed /\ MarkerCount(Val(parse_arg)) > 1)
    => Val(parse_ret) = Returned(ExtractFrom(SectionOf(Val(parse_arg))))

\* C18: with the marker but no numbered entry in the section the result is every
\* label of the section in order; without the marker it is every label of the whole
\* text in order (the empty list if there is none); the parser never fails and keeps
\* repeated labels
C18_Fallbacks ==
    Parsed
    => /\ ~Val(parse_ret).raised
       /\ (/\ FirstMarker(Val(parse_arg)) # 0
           /\ LabelsOf(SectionOf(Val(parse_arg)), {"numbered"}) = <<>>)
          => Val(parse_ret).value = LabelsOf(SectionOf(Val(parse_arg)), {"label"})
       /\ FirstMarker(Val(parse_arg)) = 0
          => Val(parse_ret).value = LabelsOf(Val(parse_arg), {"numbered", "label"})

(***************************************************************************)
(* Direct calls of calculate_aggregate_rankings.  Each Stage-2 outcome's   *)
(* text is the ranking a model wrote in the format the prompt asks for.    *)
(***************************************************************************)
\* most Stage-2 outcomes in one call
MaxParticipants == 2

\* most labels in one ranking
MaxRanked == 2

\* labels a model may rank; the mapping knows the first two
RankedLabels == {"Response A", "Response B", "Response C"}

MappedLabels == <<"Response A", "Response B">>

\* "k. Response X\n" for each label of the list, from position k on
RECURSIVE NumberedLines(_, _)
NumberedLines(labels, k) ==
    IF k > Len(labels) THEN <<>>
    ELSE <<<<"1", "2", "3", "4", "5", "6", "7", "8", "9">>[k], ".", " ">> \o RESPONSE_PREFIX
         \o <<CHOOSE c \in Range(UpperLetters) : "Response " \o c = labels[k], "\n">>
         \o NumberedLines(labels, k + 1)

\* an evaluation ending in the ranking of the labels, as the prompt asks for it
RankingText(labels) == <<"o", "k", "\n">> \o MARKER \o <<"\n">> \o NumberedLines(labels, 1)

\* the Stage-2 outcome of a model that wrote that ranking
RankingOutcome(labels) ==
    [model |-> "p", ranking |-> Some(RankingText(labels)), parsed_ranking |-> labels]

InitAggregate ==
    /\ api_key = TRUE
    /\ variant = "full"
    /\ framework = "standard"
    /\ council_models = <<>>
    /\ chairman_model = None
    /\ is_first_message = FALSE
    /\ conversation_messages = PriorTurns
    /\ pc = "aggregate"
    /\ calls = <<>>
    /\ done_order = <<>>
    /\ reordered = FALSE
    /\ responses = <<>>
    /\ stage1_results = <<>>
    /\ \E rankings \in SeqsUpTo(SeqsUpTo(RankedLabels, MaxRanked), MaxParticipants) :
         stage2_results = [j \in 1..Len(rankings) |-> RankingOutcome(rankings[j])]
    /\ \E models \in [1..Len(MappedLabels) -> Models] :
         label_to_model = [i \in 1..Len(MappedLabels) |-> <<MappedLabels[i], models[i]>>]
    /\ aggregate_rankings = <<>>
    /\ stage3_result = None
    /\ result = None
    /\ raised = None
    /\ events = <<>>
    /\ title_task = None
    /\ title = None
    /\ parse_arg = None
    /\ parse_ret = None
    /\ store = None
    /\ storage_op = None
    /\ requests = None
    /\ limiter = None
    /\ stream = None

\* calculate_aggregate_rankings(stage2_results, label_to_model) is called and returns
AggregateCall ==
    /\ pc = "aggregate"
    /\ aggregate_rankings' = CalculateAggregateRankings(stage2_results, label_to_model).value
    /\ pc' = "aggregated"
    /\ UNCHANGED <<request, direct, store, calls, done_order, reordered, responses,
                   stage1_results, stage2_results, label_to_model, stage3_result,
                   result, raised, events, title_task, title>>

NextAggregate == AggregateCall

SpecAggregate == InitAggregate /\ [][NextAggregate]_vars

\* where the parsed rankings hold a label of the model: <<participant, position>>
PositionsOf(model) ==
    {jk \in (1..Len(stage2_results)) \X (1..MaxRanked + 1) :
        /\ jk[2] <= Len(stage2_results[jk[1]].parsed_ranking)
        /\ DictHas(label_to_model, stage2_results[jk[1]].parsed_ranking[jk[2]])
        /\ DictGet(label_to_model, stage2_results[jk[1]].parsed_ranking[jk[2]]) = model}

RECURSIVE SumOfPositions(_)
SumOfPositions(S) ==
    IF S = {} THEN 0
    ELSE LET jk == CHOOSE x \in S : TRUE IN jk[2] + SumOfPositions(S \ {jk})

\* hundredths is total / count rounded to two decimals
IsRoundedMean(hundredths, total, count) ==
    /\ 2 * (100 * total - hundredths * count) <= count
    /\ 2 * (hundredths * count - 100 * total) <= count

\* C19: each aggregate entry's average rank is the mean, rounded to two decimals, of
\* the 1-based positions at which the parsed rankings hold a label of its model, and
\* its rankings count is the number of those positions
C19_AverageOfPositions ==
    pc = "aggregated"
    => \A i \in 1..Len(aggregate_rankings) :
         LET entry == aggregate_rankings[i]
             at == PositionsOf(entry.model)
         IN  /\ at # {}
             /\ entry.rankings_count = Cardinality(at)
             /\ IsRoundedMean(entry.average_rank, SumOfPositions(at), Cardinality(at))

\* C19 witness: a model ranked at positions 1, 2 and 2 has the average 1.67 over 3
\* rankings
C19_Witness ==
    /\ pc = "aggregated"
    /\ \E i \in 1..Len(aggregate_rankings) :
         /\ aggregate_rankings[i].rankings_count = 3
         /\ aggregate_rankings[i].average_rank = 167
         /\ SumOfPositions(PositionsOf(aggregate_rankings[i].model)) = 5

\* C20: each aggregate entry's rankings count is at least 1 and is the number of
\* Stage-2 participants whose parsed ranking holds a label of its model
C20_CountIsParticipants ==
    pc = "aggregated"
    => \A i \in 1..Len(aggregate_rankings) :
         /\ aggregate_rankings[i].rankings_count >= 1
         /\ aggregate_rankings[i].rankings_count
              = Cardinality({jk[1] : jk \in PositionsOf(aggregate_rankings[i].model)})

\* <<participant, position>> a comes before b in the walk over the Stage-2 outcomes
WalkedBefore(a, b) == a[1] < b[1] \/ (a[1] = b[1] /\ a[2] < b[2])

\* where the walk first attributes a rank to the model
FirstAttributed(model) ==
    CHOOSE a \in PositionsOf(model) :
        \A b \in PositionsOf(model) : a = b \/ WalkedBefore(a, b)

\* C21: the aggregate is sorted ascending by average rank, and of two entries with
\* the same average rank the one whose model was attributed a rank first comes first
C21_SortedStable ==
    pc = "aggregated"
    => \A i, j \in 1..Len(aggregate_rankings) :
         i < j
         => /\ aggregate_rankings[i].average_rank <= aggregate_rankings[j].average_rank
            /\ aggregate_rankings[i].average_rank = aggregate_rankings[j].average_rank
               => WalkedBefore(FirstAttributed(aggregate_rankings[i].model),
                               FirstAttributed(aggregate_rankings[j].model))

\* C21 witness: two models tie at 1.5 and the one attributed first, "m2", is listed
\* first
C21_Witness ==
    /\ pc = "aggregated"
    /\ Len(aggregate_rankings) = 2
    /\ aggregate_rankings[1].average_rank = 150
    /\ aggregate_rankings[2].average_rank = 150
    /\ aggregate_rankings[1].model = "m2"
    /\ aggregate_rankings[2].model = "m1"
    /\ WalkedBefore(FirstAttributed("m2"), FirstAttributed("m1"))

\* the models the mapping knows
MappedModels == {label_to_model[i][2] : i \in 1..Len(label_to_model)}

\* C22: the aggregate lists, once each, exactly the models that a label of some parsed
\* ranking maps to; a label the mapping does not know gives no model a rank and moves
\* no other label, so an entry's average lies between the least and the greatest list
\* position at which a label of its model stands
C22_ListedIffMentioned ==
    pc = "aggregated"
    => /\ {aggregate_rankings[i].model : i \in 1..Len(aggregate_rankings)}
            = {m \in MappedModels : PositionsOf(m) # {}}
       /\ \A i, j \in 1..Len(aggregate_rankings) :
            aggregate_rankings[i].model = aggregate_rankings[j].model => i = j
       /\ \A i \in 1..Len(aggregate_rankings) :
            LET at == PositionsOf(aggregate_rankings[i].model)
            IN  /\ \E jk \in at : 100 * jk[2] <= aggregate_rankings[i].average_rank
                /\ \E jk \in at : 100 * jk[2] >= aggregate_rankings[i].average_rank

\* C22 witness: the only ranking puts an unknown label first and a label of "m1"
\* second; "m1" is listed with rank 2 and "m2", which the mapping knows but no
\* ranking mentions, is not listed
C22_Witness ==
    /\ pc = "aggregated"
    /\ Len(stage2_results) = 1
    /\ Len(stage2_results[1].parsed_ranking) = 2
    /\ ~DictHas(label_to_model, stage2_results[1].parsed_ranking[1])
    /\ MappedModels = {"m1", "m2"}
    /\ Len(aggregate_rankings) = 1
    /\ aggregate_rankings[1].model = "m1"
    /\ aggregate_rankings[1].average_rank = 200

\* how often x occurs in the sequence q
Occurrences(q, x) == Cardinality({i \in 1..Len(q) : q[i] = x})

\* C23: query_models_parallel over a list that names a model k times issues k calls
\* for it and returns k outcomes for it, so as many outcomes as the list is long
C23_DuplicatesKeepTheirOutcomes ==
    (pc \in {"s1_ret", "s2_ret"} /\ ~(pc = "s1_ret" /\ framework = "six_hats"))
    => LET models == ActiveModels(council_models)
           batch == BatchOf(StageOf(pc))
       IN  /\ Len(batch) = Len(models)
           /\ \A k \in 1..Len(batch) : calls[batch[k]].model = models[k]
           /\ Len(responses) = Len(models)
           /\ \A m \in Range(models) :
                Occurrences(DictKeys(responses), m) = Occurrences(models, m)

\* C24: a Stage-1 collection over a council list of n models issues n calls, the k-th
\* to the k-th model, never another one after a failure, and leaves n Stage-1
\* outcomes, the k-th being that of the k-th model
C24_OneCallAndOutcomePerModel ==
    LET models == ActiveModels(council_models)
    IN  /\ CallsOf(1) # {}
           => /\ Len(BatchOf(1)) = Len(models)
              /\ \A k \in 1..Len(models) : calls[BatchOf(1)[k]].model = models[k]
        /\ AfterStage1
           => /\ Len(stage1_results) = Len(models)
              /\ \A k \in 1..Len(models) : stage1_results[k].model = Stage1Name(k)

\* C25: the response of every finished query_model call has exactly one of content
\* and error: content and no error when the provider answered, and an error and no
\* content when the call failed
C25_ContentXorError ==
    \A i \in 1..Len(calls) :
        (calls[i].status = "done" /\ calls[i].outcome # None)
        => LET o == Val(calls[i].outcome)
               r == Val(Val(calls[i].ret).value)
           IN  /\ (r.content # None) # (r.error # None)
               /\ (api_key /\ o.kind = "ok") => (r.content # None /\ r.error = None)
               /\ ~(api_key /\ o.kind = "ok") => (r.error # None /\ r.content = None)

(***************************************************************************)
(* Direct calls of query_model_stream (openrouter.py).  The provider's     *)
(* reply is the status of the response and the lines of its event stream   *)
(* as response.aiter_lines() delivers them.  A line is                     *)
(*   prefix  what it starts with: "data: ", or ": " of a comment line      *)
(*   body    what json.loads makes of the rest: a chunk, "[DONE]", or text *)
(*           that is no JSON; "lost" stands for the read that raises       *)
(*           because the connection broke                                  *)
(*   says    what the line means to a reader of the stream                 *)
(***************************************************************************)
\* most lines in one stream
MaxLines == 3

Line(prefix, body, says) == [prefix |-> prefix, body |-> body, says |-> says]

\* {"choices": [{"delta": {"content": content}}]}
Chunk(content) ==
    [kind |-> "json", choices |-> <<[delta |-> Some([content |-> content])]>>]

\* {"choices": [{"finish_reason": "stop"}]}: no 'delta' key
ChunkNoDelta == [kind |-> "json", choices |-> <<[delta |-> None]>>]

\* {"choices": []}
ChunkNoChoices == [kind |-> "json", choices |-> <<>>]

\* a body that is no JSON document: "done" is [DONE], "text" anything else
Plain(kind) == [kind |-> kind, choices |-> <<>>]

Lines ==
    { Line("data: ", Chunk(Some(<<"a">>)), "fragment"),
      Line("data: ", Chunk(Some(<<"b">>)), "fragment"),
      Line("data: ", Chunk(Some(<<>>)), "nothing"),
      Line("data: ", Chunk(None), "nothing"),
      Line("data: ", ChunkNoDelta, "nothing"),
      Line("data: ", ChunkNoChoices, "nothing"),
      Line("data: ", Plain("text"), "nothing"),
      Line(": ", Plain("text"), "nothing"),
      Line("data: ", Plain("done"), "end"),
      Line("", Plain("lost"), "error") }

\* what one pass of the generator's code leaves: the fragments yielded so far,
\* whether the generator goes on, and whether an exception left it
Pass(yielded, open, exc) == [yielded |-> yielded, open |-> open, raised |-> exc]

\* lines 181-183 and 198-205: without a credential the generator returns at once;
\* a connection that fails and a non-2xx status (raise_for_status) raise into the
\* outer handler, which logs and lets the generator end
OpenStream(key, conn) ==
    IF ~key THEN Pass(<<>>, FALSE, FALSE)
    ELSE IF conn # "ok" THEN Pass(<<>>, FALSE, FALSE)
    ELSE Pass(<<>>, TRUE, FALSE)

\* a loop body that takes "[DONE]" for one more payload that is no JSON
ReadLine_IgnoresDone(yielded, line) ==
    IF line.body.kind = "lost" THEN Pass(yielded, FALSE, FALSE)
    ELSE IF line.prefix # "data: " THEN Pass(yielded, TRUE, FALSE)
    ELSE IF line.body.kind # "json" THEN Pass(yielded, TRUE, FALSE)
    ELSE IF Len(line.body.choices) = 0 THEN Pass(yielded, TRUE, FALSE)
    ELSE LET delta == line.body.choices[1].delta
         IN  IF delta = None THEN Pass(yielded, TRUE, FALSE)
             ELSE LET content == Val(delta).content
                  IN  IF content # None /\ Val(content) # <<>>
                      THEN Pass(Append(yielded, Val(content)), TRUE, FALSE)
                      ELSE Pass(yielded, TRUE, FALSE)

\* lines 207-220: one turn of `async for line in response.aiter_lines()`, and the
\* outer handler (222-227) when the read raises
ReadLine(yielded, line) ==
    IF line.body.kind = "lost" THEN Pass(yielded, FALSE, FALSE)
    ELSE IF line.prefix # "data: " THEN Pass(yielded, TRUE, FALSE)
    ELSE IF line.body.kind = "done" THEN Pass(yielded, FALSE, FALSE)
    ELSE IF line.body.kind # "json" THEN Pass(yielded, TRUE, FALSE)
    ELSE IF Len(line.body.choices) = 0 THEN Pass(yielded, TRUE, FALSE)
    ELSE LET delta == line.body.choices[1].delta
         IN  IF delta = None THEN Pass(yielded, TRUE, FALSE)
             ELSE LET content == Val(delta).content
                  IN  IF content # None /\ Val(content) # <<>>
                      THEN Pass(Append(yielded, Val(content)), TRUE, FALSE)
                      ELSE Pass(yielded, TRUE, FALSE)

InitStream ==
    /\ api_key \in BOOLEAN
    /\ variant = "full"
    /\ framework = "standard"
    /\ council_models = <<>>
    /\ chairman_model = None
    /\ is_first_message = FALSE
    /\ conversation_messages = PriorTurns
    /\ pc = "stream_call"
    /\ calls = <<>>
    /\ done_order = <<>>
    /\ reordered = FALSE
    /\ responses = <<>>
    /\ stage1_results = <<>>
    /\ stage2_results = <<>>
    /\ label_to_model = <<>>
    /\ aggregate_rankings = <<>>
    /\ stage3_result = None
    /\ result = None
    /\ raised = None
    /\ events = <<>>
    /\ title_task = None
    /\ title = None
    /\ parse_arg = None
    /\ parse_ret = None
    /\ store = None
    /\ storage_op = None
    /\ requests = None
    /\ limiter = None
    /\ \E conn \in {"ok", "status", "network"}, lines \in SeqsUpTo(Lines, MaxLines) :
         /\ (api_key /\ conn = "ok") \/ lines = <<>>
         /\ stream = Some([conn |-> conn, lines |-> lines, pos |-> 0,
                           yielded |-> <<>>, raised |-> FALSE])

\* the consumer's first __anext__: the generator runs up to the loop
StreamCall ==
    /\ pc = "stream_call"
    /\ LET p == OpenStream(api_key, Val(stream).conn)
       IN  /\ stream' = Some([Val(stream) EXCEPT !.raised = p.raised])
           /\ pc' = IF p.open THEN "stream_read" ELSE "stream_closed"
    /\ UNCHANGED <<request, parser, storage_op, requests, limiter, store, calls, done_order, reordered, responses,
                   stage1_results, stage2_results, label_to_model, aggregate_rankings,
                   stage3_result, result, raised, events, title_task, title>>

\* the next line arrives (or the read raises) and the loop body runs on it
StreamRead ==
    /\ pc = "stream_read"
    /\ Val(stream).pos < Len(Val(stream).lines)
    /\ LET st == Val(stream)
           p == ReadLine(st.yielded, st.lines[st.pos + 1])
       IN  /\ stream' = Some([st EXCEPT !.pos = st.pos + 1, !.yielded = p.yielded,
                                        !.raised = p.raised])
           /\ pc' = IF p.open THEN "stream_read" ELSE "stream_closed"
    /\ UNCHANGED <<request, parser, storage_op, requests, limiter, store, calls, done_order, reordered, responses,
                   stage1_results, stage2_results, label_to_model, aggregate_rankings,
                   stage3_result, result, raised, events, title_task, title>>

\* the provider closes the stream: aiter_lines is exhausted and the generator ends
StreamEnd ==
    /\ pc = "stream_read"
    /\ Val(stream).pos = Len(Val(stream).lines)
    /\ pc' = "stream_closed"
    /\ UNCHANGED <<request, direct, store, calls, done_order, reordered, responses,
                   stage1_results, stage2_results, label_to_model, aggregate_rankings,
                   stage3_result, result, raised, events, title_task, title>>

NextStream == StreamCall \/ StreamRead \/ StreamEnd

\* the consumer keeps iterating and the HTTP client's timeout bounds every wait, so
\* a step that can be taken is taken
SpecStream == InitStream /\ [][NextStream]_vars /\ WF_vars(NextStream)

\* the lines read so far that precede the first end-of-stream marker or error
RECURSIVE BeforeEnd(_)
BeforeEnd(lines) ==
    IF lines = <<>> \/ lines[1].says \in {"end", "error"} THEN <<>>
    ELSE <<lines[1]>> \o BeforeEnd(Tail(lines))

\* the fragments the lines carry, in the order of the lines
RECURSIVE FragmentsOf(_)
FragmentsOf(lines) ==
    IF lines = <<>> THEN <<>>
    ELSE (IF lines[1].says = "fragment"
          THEN <<Val(Val(lines[1].body.choices[1].delta).content)>> ELSE <<>>)
         \o FragmentsOf(Tail(lines))

\* C26: query_model_stream yields the non-empty fragments of the frames that arrive
\* before the end-of-stream marker or an error, in their order, and nothing else: no
\* empty fragment, nothing after the marker, nothing when the credential is missing,
\* the status is not 2xx or the connection fails, no error fragment; no exception
\* leaves it; and it ends
C26_StreamYieldsFragmentsInOrder ==
    /\ [](stream # None
          => LET st == Val(stream)
                 read == SubSeq(st.lines, 1, st.pos)
             IN  /\ st.yielded = FragmentsOf(BeforeEnd(read))
                 /\ \A k \in 1..Len(st.yielded) : st.yielded[k] # <<>>
                 /\ ~st.raised
                 /\ (~api_key \/ st.conn # "ok") => (st.yielded = <<>> /\ st.pos = 0)
                 /\ (st.pos > 0 /\ st.lines[st.pos].says \in {"end", "error"})
                      => pc = "stream_closed"
                 /\ pc = "stream_closed"
                      => \/ ~api_key \/ st.conn # "ok"
                         \/ st.pos = Len(st.lines)
                         \/ st.lines[st.pos].says \in {"end", "error"})
    /\ <>(pc = "stream_closed")

\* C26 witness: the stream sent a fragment, the end-of-stream marker and another
\* fragment; the generator has ended having yielded the first fragment alone
C26_Witness ==
    /\ pc = "stream_closed"
    /\ stream # None
    /\ Len(Val(stream).lines) = 3
    /\ Val(stream).lines[2].says = "end"
    /\ Val(stream).lines[3].says = "fragment"
    /\ Val(stream).pos = 2
    /\ Len(Val(stream).yielded) = 1

\* the chairman has answered with a text
ChairmanAnswered ==
    /\ stage3_result # None
    /\ Val(stage3_result).response # None
    /\ Val(stage3_result).response # Some(SynthesisApology)

\* C27: Stage 3 takes the chairman's answer from the streaming Gateway call and hands
\* it on fragment by fragment: the chairman call is a query_model_stream call, and a
\* streaming run whose chairman answered has emitted stage3 fragment events
C27_Stage3StreamsChairman ==
    /\ \A c \in CallsOf(3) : calls[c].gateway = "query_model_stream"
    /\ (variant = "stream" /\ ChairmanAnswered) => "stage3" \in Range(events)

\* where the event stands in the stream's events (0: nowhere)
EventAt(ev) ==
    IF ev \in Range(events) THEN CHOOSE k \in 1..Len(events) : events[k] = ev ELSE 0

\* C28: in the streaming variant the title task exists from before the first Stage-1
\* call, and only for a conversation's first message; the title is emitted at most
\* once, and stored only with its emission; when it is emitted the message is the
\* first, the title task has finished, Stage 3 has finished and announced its result
\* and the stored title is the task's; complete is never emitted before it, and
\* follows it as the next and last event of a run that ends (unless the conversation
\* was deleted under the request)
C28_TitleAfterBoth ==
    variant = "stream"
    => /\ (is_first_message /\ calls # <<>>) => title_task # None
       /\ ~is_first_message => (title_task = None /\ title = None)
       /\ Occurrences(events, "title_complete") <= 1
       /\ title # None => "title_complete" \in Range(events)
       /\ "title_complete" \in Range(events)
            => /\ is_first_message
               /\ title_task # None
               /\ Val(title_task).status = "done"
               /\ ~Val(Val(title_task).ret).raised
               /\ title = Some(Val(Val(title_task).ret).value)
               /\ stage3_result # None
               /\ 0 < EventAt("stage3_complete")
               /\ EventAt("stage3_complete") < EventAt("title_complete")
               /\ "complete" \in Range(events)
                    => /\ EventAt("complete") = EventAt("title_complete") + 1
                       /\ EventAt("complete") = Len(events)
               /\ (pc = "done" /\ ~ConversationGone) => "complete" \in Range(events)
       /\ (is_first_message /\ "complete" \in Range(events))
            => "title_complete" \in Range(events)

\* C28 witness: a streaming run of a first message has emitted the title "T" after
\* stage3_complete and has completed
C28_Witness ==
    /\ variant = "stream"
    /\ is_first_message
    /\ pc = "done"
    /\ title = Some(<<"T">>)
    /\ "title_complete" \in Range(events)
    /\ events[Len(events)] = "complete"

\* the models the calls of a stage went to, in issue order
DispatchedTo(stage) == [k \in 1..Len(BatchOf(stage)) |-> calls[BatchOf(stage)[k]].model]

\* C29: the calls of Stage 1 and those of Stage 2 go to the supplied council list, or
\* to the default set when the supplied list is empty; the chairman call goes to the
\* supplied chairman, or to the default chairman when none is supplied; and no step
\* of the run changes the supplied list or chairman
C29_ConfigurationFixed ==
    /\ [](LET council == IF council_models = <<>> THEN COUNCIL_MODELS ELSE council_models
              chairman == IF chairman_model = None THEN CHAIRMAN_MODEL
                          ELSE Val(chairman_model)
          IN  /\ \A stage \in {1, 2} :
                   CallsOf(stage) # {} => DispatchedTo(stage) = council
              /\ \A c \in CallsOf(3) : calls[c].model = chairman)
    /\ [][council_models' = council_models /\ chairman_model' = chairman_model]_vars

\* C29 witness: a run with no supplied list and no supplied chairman has issued its
\* Stage-1 and Stage-2 calls to the six default models and its chairman call to the
\* default chairman
C29_Witness ==
    /\ council_models = <<>>
    /\ chairman_model = None
    /\ DispatchedTo(1) = COUNCIL_MODELS
    /\ DispatchedTo(2) = COUNCIL_MODELS
    /\ \E c \in CallsOf(3) : calls[c].model = CHAIRMAN_MODEL

\* C30: every Stage-1 call sends the whole message history, the earlier turns
\* followed by the current user message, in order and unchanged
C30_Stage1SendsHistory ==
    \A c \in CallsOf(1) :
        Stage1Payload(calls[c].messages)
          = conversation_messages \o <<Message("user", UserQuery)>>

\* the models of the Stage-1 outcomes that carry a response, in result order
RECURSIVE RespondedModels(_)
RespondedModels(s1) ==
    IF s1 = <<>> THEN <<>>
    ELSE (IF s1[1].response # None THEN <<s1[1].model>> ELSE <<>>)
         \o RespondedModels(Tail(s1))

\* C31: the metadata of a run that returned its results lists as council models the
\* models of the Stage-1 outcomes that responded, in Stage-1 result order; for a
\* supplied list whose models all responded under the standard framework that is the
\* supplied list as a set
C31_MetadataCouncilResponded ==
    (/\ variant = "full"
     /\ pc = "done"
     /\ result # None
     /\ Val(result) # ReturnError)
    => LET listed == DictGet(Val(result).metadata, "council_models")
       IN  /\ listed = RespondedModels(Val(result).stage1)
           /\ (/\ council_models # <<>>
               /\ framework = "standard"
               /\ \A i \in CallsOf(1) : ~calls[i].failed)
              => Range(listed) = Range(council_models)

(***************************************************************************)
(* The storage functions called directly, one after another                *)
(***************************************************************************)
\* number of storage calls followed
MaxOps == 3

\* the state of a council run
run == <<pc, calls, done_order, reordered, responses, stage1_results, stage2_results,
         label_to_model, aggregate_rankings, stage3_result, result, raised, events,
         title_task, title>>

\* no council run is followed
NoRun ==
    /\ api_key = TRUE
    /\ variant = "full"
    /\ framework = "standard"
    /\ council_models = <<>>
    /\ chairman_model = None
    /\ is_first_message = FALSE
    /\ conversation_messages = PriorTurns
    /\ pc = "idle"
    /\ calls = <<>>
    /\ done_order = <<>>
    /\ reordered = FALSE
    /\ responses = <<>>
    /\ stage1_results = <<>>
    /\ stage2_results = <<>>
    /\ label_to_model = <<>>
    /\ aggregate_rankings = <<>>
    /\ stage3_result = None
    /\ result = None
    /\ raised = None
    /\ events = <<>>
    /\ title_task = None
    /\ title = None

\* DATABASE_URL is set or not; nothing is stored yet
InitStorage ==
    /\ NoRun
    /\ parse_arg = None
    /\ parse_ret = None
    /\ stream = None
    /\ requests = None
    /\ limiter = None
    /\ store \in {EmptyStore(TRUE), EmptyStore(FALSE)}
    /\ storage_op = None

Ops == IF storage_op = None THEN 0 ELSE Val(storage_op).n

\* the calls made so far: function, conversation, user, and whether it raised
Log == IF storage_op = None THEN <<>> ELSE Val(storage_op).log

\* one call of a storage function: what it was given, the store it found, the
\* store it leaves and what it returned or raised
StorageCall(op, conversation_id, user_id, arg, effect) ==
    /\ Ops < MaxOps
    /\ storage_op' = Some([n |-> Ops + 1, op |-> op, conversation_id |-> conversation_id,
                           user_id |-> user_id, arg |-> arg, before |-> store,
                           ret |-> effect.ret,
                           log |-> Append(Log, <<op, conversation_id, user_id,
                                                 effect.ret.raised>>)])
    /\ store' = effect.store
    /\ UNCHANGED <<request, run, parser, stream, requests, limiter>>

CreateCall ==
    \E c \in ConvIds, u \in Users, fw \in {"standard", "debate"} :
        StorageCall("create_conversation", c, u, <<fw>>,
                    CreateConversation(store, c, u, fw, <<"m1", "m2">>, Some("c1")))

GetCall ==
    \E c \in ConvIds, u \in Users :
        StorageCall("get_conversation", c, u, <<>>, GetConversation(store, c, u))

ListCall ==
    \E u \in Users :
        StorageCall("list_conversations", "", u, <<>>, ListConversations(store, u))

AddUserCall ==
    \E c \in ConvIds, u \in Users, content \in {"p", "q"} :
        StorageCall("add_user_message", c, u, <<content>>,
                    AddUserMessage(store, c, u, content))

AddAssistantCall ==
    \E c \in ConvIds, u \in Users :
        StorageCall("add_assistant_message", c, u, <<>>,
                    AddAssistantMessage(store, c, u, ReturnError.stage1,
                                        ReturnError.stage2, ReturnError.stage3))

UpdateTitleCall ==
    \E c \in ConvIds, u \in Users :
        StorageCall("update_conversation_title", c, u, <<>>,
                    UpdateConversationTitle(store, c, u, <<"T">>))

DeleteCall ==
    \E c \in ConvIds, u \in Users :
        StorageCall("delete_conversation", c, u, <<>>, DeleteConversation(store, c, u))

NextStorage ==
    \/ CreateCall
    \/ GetCall
    \/ ListCall
    \/ AddUserCall
    \/ AddAssistantCall
    \/ UpdateTitleCall
    \/ DeleteCall

SpecStorage == InitStorage /\ [][NextStorage]_vars

\* the last storage call was `op`
Called(op) == storage_op # None /\ Val(storage_op).op = op

\* the conversation the last call named, as it was stored when the call began
Target == Val(storage_op).before.conversations[Val(storage_op).conversation_id]

\* the caller of the last call owned the conversation it named
ByOwner == Target # None /\ Val(Target).user_id = Val(storage_op).user_id

\* C32: get_conversation(c, u) returns a conversation only if u is the owner recorded
\* for c, and then that conversation; for every other user it returns None, as for a
\* conversation that does not exist; list_conversations(u) lists only conversations
\* owned by u
C32_ReadIsolation ==
    /\ Called("get_conversation") =>
          LET got == Val(storage_op).ret.value
          IN  /\ ~Val(storage_op).ret.raised
              /\ got # None => (ByOwner /\ got = Target)
              /\ ~ByOwner => got = None
    /\ Called("list_conversations") =>
          LET listed == Val(storage_op).ret.value
          IN  \A i \in 1..Len(listed) :
                 LET conv == Val(storage_op).before.conversations[listed[i].id]
                 IN  conv # None /\ Val(conv).user_id = Val(storage_op).user_id

\* a stored conversation was asked for by a user who does not own it, and None came back
C32_Witness ==
    /\ Called("get_conversation")
    /\ Target # None
    /\ ~ByOwner
    /\ Val(storage_op).ret.value = None
    /\ Len(Val(Target).messages) > 0

\* the conversation the last call named, as it is stored now
TargetNow == store.conversations[Val(storage_op).conversation_id]

\* the last three calls were create_conversation, add_user_message and
\* get_conversation, by one user on one conversation, and the first two succeeded
CreatedAddedRead ==
    /\ Called("get_conversation")
    /\ Len(Log) >= 3
    /\ LET c == Val(storage_op).conversation_id
           u == Val(storage_op).user_id
           n == Len(Log)
       IN  /\ Log[n - 2] = <<"create_conversation", c, u, FALSE>>
           /\ Log[n - 1] = <<"add_user_message", c, u, FALSE>>

\* C33: add_user_message by the owner returns, and the stored conversation is the
\* one found with exactly {role: user, content: text} appended to its messages: the
\* earlier messages, their order and every other field are as before; a get right
\* after create_conversation and one add_user_message shows exactly one message
C33_AddUserMessageAppends ==
    /\ (Called("add_user_message") /\ ByOwner) =>
          /\ ~Val(storage_op).ret.raised
          /\ TargetNow =
                Some([Val(Target) EXCEPT
                        !.messages = Append(@, Message("user", Val(storage_op).arg[1]))])
    /\ CreatedAddedRead =>
          /\ Val(storage_op).ret.value # None
          /\ Len(Val(Val(storage_op).ret.value).messages) = 1

\* the owner added a user message to a conversation that already held a different one
C33_Witness ==
    /\ Called("add_user_message")
    /\ ByOwner
    /\ Len(Val(Target).messages) = 1
    /\ Val(Target).messages[1] # Message("user", Val(storage_op).arg[1])
    /\ Len(Val(TargetNow).messages) = 2
    /\ ~Val(storage_op).ret.raised

\* the storage functions that write to an existing conversation
Writes == {"add_user_message", "add_assistant_message", "update_conversation_title",
           "delete_conversation"}

\* C38: add_user_message, add_assistant_message, update_conversation_title and
\* delete_conversation called by a user who does not own the conversation, or for a
\* conversation that does not exist, raise and leave the whole store as it was, in
\* file mode and in database mode
C38_NonOwnerWriteHasNoEffect ==
    (storage_op # None /\ Val(storage_op).op \in Writes /\ ~ByOwner) =>
        /\ Val(storage_op).ret.raised
        /\ Val(storage_op).ret.exc = "ValueError"
        /\ store = Val(storage_op).before

\* in database mode, a user tried to add a message to a conversation that another
\* user owns and that already holds a message
C38_Witness ==
    /\ Called("add_user_message")
    /\ Val(storage_op).before.database
    /\ Target # None
    /\ ~ByOwner
    /\ Len(Val(Target).messages) > 0
    /\ Val(storage_op).ret.raised

\* C34: in the streaming variant, if every Stage-1 call fails, no Stage-2 and no
\* Stage-3 call is issued and the Stage-3 result of the run is the synthetic "error"
\* result with the fixed apology
C34_StreamShortCircuits ==
    (/\ variant = "stream"
     /\ StageOver(1)
     /\ \A i \in CallsOf(1) : calls[i].failed)
    => /\ CallsOf(2) = {} /\ CallsOf(3) = {}
       /\ pc = "done" => stage3_result = Some(ReturnError.stage3)

\* the messages stored for the conversation of the request
StoredMessages ==
    IF ConversationGone THEN <<>> ELSE Val(store.conversations[ConversationId]).messages

\* the messages the conversation held when the request arrived, then the user message
WithUserMessage == Append(conversation_messages, Message("user", UserQuery))

\* C35: in send_message the user message is stored before any Gateway call of the
\* request is issued; an assistant message is stored only once run_full_council has
\* returned, after the chairman call; a request that completes has appended exactly
\* the user message and then one assistant message with the run's three results; a
\* request that raises leaves the user message as the last stored message (the
\* conversation being deleted under the request aside)
C35_TwoMessagesInOrder ==
    (variant = "full" /\ ~ConversationGone)
    => /\ (calls # <<>> \/ title_task # None)
            => /\ Len(StoredMessages) > Len(conversation_messages)
               /\ SubSeq(StoredMessages, 1, Len(WithUserMessage)) = WithUserMessage
       /\ Len(StoredMessages) > Len(WithUserMessage)
            => /\ result # None
               /\ Val(result) = ReturnError \/ StageOver(3)
       /\ (pc = "done" /\ raised = None)
            => /\ result # None
               /\ StoredMessages =
                     Append(WithUserMessage,
                            AssistantMessage(Val(result).stage1, Val(result).stage2,
                                             Val(result).stage3))
       /\ raised # None => StoredMessages = WithUserMessage

\* a send_message on a conversation with earlier turns has completed: four messages
\* are stored, the last with a ranked Stage 2 and the chairman's answer
C35_Witness ==
    /\ variant = "full"
    /\ pc = "done"
    /\ raised = None
    /\ conversation_messages = PriorTurns
    /\ Len(StoredMessages) = 4
    /\ StoredMessages[4].role = "assistant"
    /\ StoredMessages[4].stage2 # <<>>
    /\ StoredMessages[4].stage3.model # "error"

\* C37: a streaming run emits at most one error event; an error event is the last
\* event of the stream, no complete is emitted in that run and no assistant message is
\* stored for it; a run that has ended without complete has ended with the error
\* event, and a run that has emitted complete has stored its assistant message
C37_ErrorEventIsLast ==
    variant = "stream"
    => /\ Occurrences(events, "error") <= 1
       /\ "error" \in Range(events)
            => /\ events[Len(events)] = "error"
               /\ "complete" \notin Range(events)
               /\ pc = "done"
               /\ Len(StoredMessages) <= Len(WithUserMessage)
       /\ (pc = "done" /\ "complete" \notin Range(events)) => "error" \in Range(events)
       /\ "complete" \in Range(events)
            => /\ Len(StoredMessages) = Len(WithUserMessage) + 1
               /\ StoredMessages[Len(StoredMessages)] =
                     AssistantMessage(stage1_results, stage2_results, Val(stage3_result))

\* a streaming run stored and emitted the title, then add_assistant_message raised:
\* the stream ends with title_complete, error
C37_Witness ==
    /\ variant = "stream"
    /\ pc = "done"
    /\ Len(events) >= 2
    /\ events[Len(events) - 1] = "title_complete"
    /\ events[Len(events)] = "error"
    /\ title # None

(***************************************************************************)
(* Two message requests on one conversation, served by one event loop: a   *)
(* step is the code a handler runs between two suspension points.  The      *)
(* file branches of storage.py never suspend; the database functions        *)
(* suspend at the select and at the commit                                  *)
(***************************************************************************)
Requests == {1, 2}

\* request.content of each request
Content(r) == IF r = 1 THEN "q1" ELSE "q2"

\* the handler of a request that has arrived
Handler(v) ==
    [variant |-> v, pc |-> "arrived", is_first_message |-> FALSE, row |-> None,
     titled |-> FALSE]

\* the assistant message of request r: the results of the council run of the
\* conversation (standard framework, no supplied council and no supplied chairman,
\* so the six models of COUNCIL_MODELS and CHAIRMAN_MODEL are asked) in which the
\* provider answered every call with the content of the request.  The steps of a
\* council run are followed in Spec.
Answer(r) ==
    LET value == QueryModel(TRUE, OkOutcome(Some(<<Content(r)>>))).value
        answers == QueryModelsParallel(ActiveModels(<<>>),
                                       [k \in 1..Len(ActiveModels(<<>>)) |-> value])
    IN  AssistantMessage(Stage1Results(answers),
                         Stage2Rankings(answers).value,
                         Stage3Result(ActiveChairman(None), value))

\* db_add_message up to the commit: the row is selected and the message is appended
\* to a copy of its messages
DbSelect(st, conversation_id) == st.conversations[conversation_id]

\* db_add_message, the commit: the row's messages column is overwritten
DbCommit(st, row, message) ==
    Save(st, [Val(st.conversations[Val(row).id]) EXCEPT
                !.messages = Append(Val(row).messages, message)])

InitConcurrent ==
    /\ NoRun
    /\ parse_arg = None
    /\ parse_ret = None
    /\ stream = None
    /\ storage_op = None
    /\ limiter = None
    /\ \E database \in BOOLEAN :
          store = [Stored("standard", <<>>, None, <<>>) EXCEPT !.database = database]
    /\ requests \in [Requests -> {Handler("full"), Handler("stream")}]

\* the handler of request r takes a step that leaves the store as st and itself as h
HandlerStep(r, st, h) ==
    /\ store' = st
    /\ requests' = [requests EXCEPT ![r] = h]
    /\ UNCHANGED <<request, run, parser, stream, storage_op, limiter>>

\* get_conversation and is_first_message; in file mode send_message goes on, without
\* suspending, to add_user_message
Receive(r) ==
    /\ requests[r].pc = "arrived"
    /\ LET conversation == Val(GetConversation(store, ConversationId, UserId).ret.value)
           h == [requests[r] EXCEPT
                   !.is_first_message = (Len(conversation.messages) = 0)]
       IN  IF ~store.database /\ h.variant = "full"
           THEN HandlerStep(r, AddUserMessage(store, ConversationId, UserId,
                                              Content(r)).store,
                            [h EXCEPT !.pc = "running"])
           ELSE HandlerStep(r, store, [h EXCEPT !.pc = "got"])

\* add_user_message: the whole of it in file mode, up to the commit in database mode
AddUser(r) ==
    /\ requests[r].pc = "got"
    /\ IF store.database
       THEN HandlerStep(r, store, [requests[r] EXCEPT
                                     !.pc = "adding_user",
                                     !.row = DbSelect(store, ConversationId)])
       ELSE HandlerStep(r, AddUserMessage(store, ConversationId, UserId, Content(r)).store,
                        [requests[r] EXCEPT !.pc = "running"])

CommitUser(r) ==
    /\ requests[r].pc = "adding_user"
    /\ HandlerStep(r, DbCommit(store, requests[r].row, Message("user", Content(r))),
                   [requests[r] EXCEPT !.pc = "running", !.row = None])

\* the council has run; for a first message the title has been generated and stored
Run(r) ==
    /\ requests[r].pc = "running"
    /\ HandlerStep(r, IF requests[r].is_first_message
                      THEN UpdateConversationTitle(store, ConversationId, UserId,
                                                   <<Content(r)>>).store
                      ELSE store,
                   [requests[r] EXCEPT !.pc = "ran", !.titled = @ \/ requests[r].is_first_message])

\* add_assistant_message: the whole of it in file mode, up to the commit in database
\* mode
AddAssistant(r) ==
    /\ requests[r].pc = "ran"
    /\ IF store.database
       THEN HandlerStep(r, store, [requests[r] EXCEPT
                                     !.pc = "adding_assistant",
                                     !.row = DbSelect(store, ConversationId)])
       ELSE HandlerStep(r, AddAssistantMessage(store, ConversationId, UserId,
                                               Answer(r).stage1, Answer(r).stage2,
                                               Answer(r).stage3).store,
                        [requests[r] EXCEPT !.pc = "done"])

CommitAssistant(r) ==
    /\ requests[r].pc = "adding_assistant"
    /\ HandlerStep(r, DbCommit(store, requests[r].row, Answer(r)),
                   [requests[r] EXCEPT !.pc = "done", !.row = None])

NextConcurrent ==
    \E r \in Requests :
        \/ Receive(r)
        \/ AddUser(r)
        \/ CommitUser(r)
        \/ Run(r)
        \/ AddAssistant(r)
        \/ CommitAssistant(r)

SpecConcurrent == InitConcurrent /\ [][NextConcurrent]_vars

\* both requests have been served
BothServed == requests # None /\ \A r \in Requests : requests[r].pc = "done"

\* C36: when two concurrent message requests on one conversation have been served,
\* the conversation holds the user message and the assistant message of both, every
\* assistant message directly follows the user message of its request, and the title
\* was generated for at most one of the two
C36_ConcurrentRequestsAlternate ==
    BothServed
    => /\ Len(StoredMessages) = 4
       /\ \A r \in Requests :
             /\ Message("user", Content(r)) \in Range(StoredMessages)
             /\ Answer(r) \in Range(StoredMessages)
       /\ \A k \in 1..Len(StoredMessages) :
             StoredMessages[k].role = "assistant"
             => /\ k > 1
                /\ \E r \in Requests :
                      /\ StoredMessages[k] = Answer(r)
                      /\ StoredMessages[k - 1] = Message("user", Content(r))
       /\ Cardinality({r \in Requests : requests[r].titled}) <= 1

(***************************************************************************)
(* security.py: the rate limiter.  _limiter_store maps a client address to  *)
(* the timestamps of its accepted requests                                  *)
(***************************************************************************)
\* the clock runs from 0 to MaxTime
MaxTime == 4

\* request.client.host, or "unknown" for a request without a client
Clients == {"10.0.0.1", "unknown"}

\* lines 33-34: timestamps older than the window are popped from the front
RECURSIVE Cleanup(_, _, _)
Cleanup(history, current_time, time_window) ==
    IF history # <<>> /\ history[1] < current_time - time_window
    THEN Cleanup(Tail(history), current_time, time_window)
    ELSE history

\* a dependency that records the timestamp of a request before it rejects it
Dependency_RecordsRejected(limiter_store, client_ip, current_time, requests_limit, time_window) ==
    LET history == Cleanup(limiter_store[client_ip], current_time, time_window)
    IN  IF Len(history) >= requests_limit
        THEN [store |-> [limiter_store EXCEPT ![client_ip] = Append(history, current_time)],
              ret |-> Raised("HTTP_429_TOO_MANY_REQUESTS")]
        ELSE [store |-> [limiter_store EXCEPT ![client_ip] = Append(history, current_time)],
              ret |-> Returned(TRUE)]

\* rate_limiter(requests_limit, time_window).dependency, lines 23-43
Dependency(limiter_store, client_ip, current_time, requests_limit, time_window) ==
    LET history == Cleanup(limiter_store[client_ip], current_time, time_window)
    IN  IF Len(history) >= requests_limit
        THEN [store |-> [limiter_store EXCEPT ![client_ip] = history],
              ret |-> Raised("HTTP_429_TOO_MANY_REQUESTS")]
        ELSE [store |-> [limiter_store EXCEPT ![client_ip] = Append(history, current_time)],
              ret |-> Returned(TRUE)]

\* one dependency made by rate_limiter(requests_limit, time_window), an empty
\* _limiter_store, and the clock; `accepted` keeps the timestamps of every request
\* the dependency has let through, `last` the last request
InitRateLimit ==
    /\ NoRun
    /\ parse_arg = None
    /\ parse_ret = None
    /\ stream = None
    /\ store = None
    /\ storage_op = None
    /\ requests = None
    /\ \E requests_limit \in 1..2, time_window \in 1..2 :
          limiter = Some([requests_limit |-> requests_limit, time_window |-> time_window,
                          store |-> [c \in Clients |-> <<>>], time |-> 0,
                          accepted |-> [c \in Clients |-> <<>>], last |-> None])

\* time.time() moves on
Tick ==
    /\ limiter # None
    /\ Val(limiter).time < MaxTime
    /\ limiter' = Some([Val(limiter) EXCEPT !.time = @ + 1])
    /\ UNCHANGED <<request, run, parser, stream, store, storage_op, requests>>

\* a request of a client reaches the dependency
LimitedRequest(client_ip) ==
    /\ limiter # None
    /\ LET l == Val(limiter)
           d == Dependency(l.store, client_ip, l.time, l.requests_limit, l.time_window)
       IN  limiter' = Some([l EXCEPT
                              !.store = d.store,
                              !.accepted[client_ip] =
                                  IF d.ret.raised THEN @ ELSE Append(@, l.time),
                              !.last = Some([client_ip |-> client_ip, time |-> l.time,
                                             before |-> l.store, ret |-> d.ret])])
    /\ UNCHANGED <<request, run, parser, stream, store, storage_op, requests>>

NextRateLimit ==
    \/ Tick
    \/ \E client_ip \in Clients : LimitedRequest(client_ip)

SpecRateLimit == InitRateLimit /\ [][NextRateLimit]_vars

\* s is the sequence `whole` without some of its first elements
IsSuffix(s, whole) ==
    Len(s) <= Len(whole) /\ s = SubSeq(whole, Len(whole) - Len(s) + 1, Len(whole))

\* the number of requests of the client accepted at a time from t to t + time_window
AcceptedIn(client_ip, t) ==
    Cardinality({k \in 1..Len(Val(limiter).accepted[client_ip]) :
                   /\ t <= Val(limiter).accepted[client_ip][k]
                   /\ Val(limiter).accepted[client_ip][k] <= t + Val(limiter).time_window})

\* C39: for every client, the requests accepted within any interval of time_window
\* seconds are never more than requests_limit; a request rejected with 429 adds
\* nothing to the client's history (which only loses timestamps that are too old); a
\* request leaves the histories of the other clients as they were
C39_RateLimit ==
    limiter # None
    => /\ \A c \in Clients : \A t \in 0..MaxTime :
             AcceptedIn(c, t) <= Val(limiter).requests_limit
       /\ Val(limiter).last # None
            => LET last == Val(Val(limiter).last)
               IN  /\ last.ret.raised
                        => /\ IsSuffix(Val(limiter).store[last.client_ip],
                                       last.before[last.client_ip])
                           /\ Len(Val(limiter).store[last.client_ip])
                                 >= Val(limiter).requests_limit
                   /\ ~last.ret.raised
                        => Val(limiter).store[last.client_ip]
                             = Append(Cleanup(last.before[last.client_ip], last.time,
                                              Val(limiter).time_window), last.time)
                   /\ \A c \in Clients \ {last.client_ip} :
                         Val(limiter).store[c] = last.before[c]

\* with a limit of two, a client that had two requests accepted in the window is
\* rejected, after an older timestamp of it was dropped, while the other client has a
\* history of its own
C39_Witness ==
    /\ limiter # None
    /\ Val(limiter).requests_limit = 2
    /\ Val(limiter).last # None
    /\ LET last == Val(Val(limiter).last)
       IN  /\ last.ret.raised
           /\ Len(Val(limiter).accepted[last.client_ip]) > 2
           /\ Len(Val(limiter).store[last.client_ip]) = 2
           /\ \E c \in Clients \ {last.client_ip} : Val(limiter).store[c] # <<>>

(***************************************************************************)
(* Termination: every Gateway call is bounded by its timeout, every handler *)
(* step that can be taken is taken, and the consumer of the event stream    *)
(* asks for the next event after each one it received.  A consumer that     *)
(* stops reading leaves event_generator suspended at the yield it reached;  *)
(* Spec allows that (the run stutters there), the fairness below does not.  *)
(***************************************************************************)
\* the steps of a request but the return of Stage 2
StepsButStage2Done ==
    \/ StartStage1
    \/ StartTitle
    \/ TitleTaskDone
    \/ TitleAwaited
    \/ \E i \in 1..Len(calls) : Complete(i)
    \/ BatchReturn
    \/ Stage1Done
    \/ Stage3Done
    \/ ResumeStage1
    \/ ResumeStage2Start
    \/ ResumeStage2
    \/ ResumeStage3Start
    \/ ResumeStage3
    \/ ResumeTitle
    \/ ResumeSave

\* Stage2Done is enabled exactly in the states with pc = "s2_ret" and leaves them, so
\* weak fairness of it is written as: the run is not at "s2_ret" for ever
SpecFair ==
    Init /\ [][Next]_vars /\ WF_vars(StepsButStage2Done) /\ []<>(pc # "s2_ret")

\* the last event of the stream
LastEvent == IF events = <<>> THEN "" ELSE events[Len(events)]

\* C40: every run ends and stays ended: a run_full_council that has issued its
\* Stage-1 calls has returned its 4-tuple; a streaming run has complete or error as
\* its last event and emits nothing more
C40_RunsTerminate ==
    <>[](/\ pc = "done"
         /\ (variant = "full" /\ calls # <<>>) => result # None
         /\ variant = "stream" => LastEvent \in {"complete", "error"})

====
